---- MODULE Spec2Model ----
(***************************************************************************)
(* Audio feature extractor (AudioAnalyzer), the frame loops of the two     *)
(* visualizers (Visualizer2D, Visualizer3D), the camera gesture handlers   *)
(* of Visualizer3D and the palette generator (ColorUtils), as state        *)
(* machines.                                                               *)
(*                                                                         *)
(* Numbers.  JavaScript numbers that are fractions are kept exact as       *)
(* integers over a fixed denominator that is named where the value is      *)
(* defined: an energy is the numerator of sum/(len*255*255), a smoothed    *)
(* spectrum value is a numerator over 10^exp.  null is 0 for an object     *)
(* reference and <<>> for a typed array (the arrays are never empty).      *)
(***************************************************************************)
EXTENDS Integers, Sequences, FiniteSets, TLC

\* ------------------------------------------------------------------ bounds
NumBins == 2
MaxLevel == 1
MaxInits == 2
MaxCycles == 3
NumElements == 1
Epoch == 1000
MaxBeatTime == 1300
MaxCamTime == 7000
MaxCoord == 1
MaxRot == 1
MaxTimers == 2
MaxRaf == 3
MaxBandBins == 130
MaxLife == 2
MaxWidth == 2
EnergySteps == 1
MaxPaletteCalls == 2
MaxSceneTime == 1500
\* lengths requested of getVisualizationData: up to more than NumBins
MaxBars == 3
\* analyzeTrack calls, and the length of the energy text of a remote answer
MaxTracks == 2
MaxEnergyText == 2

\* ------------------------------------------------------- program constants
beatMinInterval == 200
fftSize == 2048
maxEnergyHistorySize == 43
resumeDelay == 5000
pitchAmplitude == 10
barCount == 64
sphereCount == 100
ringCount == 20
pointsPerRing == 32
gridSize == 32
maxParticles == 150
\* modeTransition falls from 1 by 0.02 a frame: 50 steps
transitionSteps == 50
\* colorTransition grows by 0.01 a frame and wraps at >= 1: 100 frames
colorSteps == 100

VARIABLES
    \* AudioAnalyzer fields
    audioContext, analyser, source, frequencyData, timeData,
    lastFrequencyData, lastBeatTime, energyHistory, currentAnalysis,
    \* the Web Audio platform the analyzer talks to
    nodeCount, edges, boundBy, closedCtx, pendingInit, ctxRequests,
    \* wall clock (Date.now())
    now,
    \* observation of the last operation, and counters that bound the runs
    outcome, initCount, cycles, justDisposed, beatLog, solo, everInitialized,
    \* Visualizer3D camera control: fields, the closure variables of
    \* addEventListeners, and the pending setTimeout callbacks
    autoRotate, targetRotation, isMouseDown, mouseX, mouseY, timers,
    \* observation of gestures and of the resumption of auto-rotate
    lastGestureEnd, resumeLog,
    \* Visualizer2D and the animation loops it created
    v2d, loops2D,
    \* Visualizer3D, its object collection, the scene graph and the GPU
    \* resources (geometry + material) that are allocated and not disposed
    v3d, visualObjects, sceneObjects, gpuLive, geomCount,
    \* the host's requestAnimationFrame queue and id counter
    rafQueue, rafCount,
    \* observation: a frame body ran on a stopped visualizer
    strayBody,
    \* observation: the direct calls of generateMoodPalette and their results
    paletteLog,
    \* AIIntegration: the API key, the mood cache, and what the last
    \* analyzeTrack promise settled with
    ai,
    \* MusicVizApp: its own fields, the classes of the page elements it shows
    \* and hides, and the promises and timers it has left pending
    app

analyzerVars == <<audioContext, analyser, source, frequencyData, timeData,
                  lastFrequencyData, lastBeatTime, energyHistory, currentAnalysis>>
platformVars == <<nodeCount, edges, boundBy, closedCtx, pendingInit, ctxRequests>>
ghostVars == <<outcome, initCount, cycles, justDisposed, beatLog, solo,
               everInitialized>>
cameraVars == <<autoRotate, targetRotation, isMouseDown, mouseX, mouseY, timers,
                lastGestureEnd, resumeLog>>
loopVars == <<v2d, loops2D, v3d, visualObjects, sceneObjects, gpuLive, geomCount,
              rafQueue, rafCount, strayBody, paletteLog>>
hostVars == <<cameraVars, loopVars>>
extractorVars == <<analyzerVars, platformVars, ghostVars>>
vars == <<analyzerVars, platformVars, now, ghostVars, hostVars, ai, app>>

\* ----------------------------------------------------------------- helpers
RECURSIVE SeqSum(_)
SeqSum(s) == IF s = <<>> THEN 0 ELSE Head(s) + SeqSum(Tail(s))

RECURSIVE SeqSumSq(_)
SeqSumSq(s) == IF s = <<>> THEN 0 ELSE Head(s) * Head(s) + SeqSumSq(Tail(s))

Levels == 0..MaxLevel
Buffers == [1..NumBins -> Levels]
Elements == 1..NumElements
Dest == 0
NoSource == [node |-> 0, el |-> 0]
ZeroArray == [i \in 1..NumBins |-> 0]
SilentWave == [i \in 1..NumBins |-> 128]

\* ------------------------------------------------------- feature extraction
\* calculateVolume: sqrt(sum(((s-128)/128)^2)/len); kept as the numerator
\* sum((s-128)^2) of the squared volume over 128*128*len.
calculateVolume(td) == SeqSumSq([i \in 1..Len(td) |-> td[i] - 128])

\* calculateEnergy: sum(f^2)/(len*255*255); kept as the numerator sum(f^2).
calculateEnergy(fd) == SeqSumSq(fd)

\* The statistical test of detectBeat over the history h (current energy
\* already pushed): e > mean + 0.35*sqrt(variance).  With n = Len(h),
\* S = sum, SS = sum of squares: mean = S/n, variance = (n*SS - S*S)/(n*n),
\* so the test is 20*(n*e - S) > 7*sqrt(n*SS - S*S).
\* The statistical test with the comparison let through at equality.
AtOrAboveThreshold(h, e) ==
    LET n == Len(h)
        x == n * e - SeqSum(h)
        d == n * SeqSumSq(h) - SeqSum(h) * SeqSum(h)
    IN  x >= 0 /\ 400 * x * x >= 49 * d

AboveThreshold(h, e) ==
    LET n == Len(h)
        x == n * e - SeqSum(h)
        d == n * SeqSumSq(h) - SeqSum(h) * SeqSum(h)
    IN  x > 0 /\ 400 * x * x > 49 * d

\* The refractory test with the boundary let through.
RefractoryReached(elapsed) == elapsed >= beatMinInterval

\* timeSinceLastBeat > this.beatMinInterval
RefractoryElapsed(elapsed) == elapsed > beatMinInterval

\* The push of detectBeat without the eviction.
PushEnergyKeeping(h, e) == Append(h, e)

PushEnergy(h, e) ==
    LET pushed == Append(h, e)
    IN  IF Len(pushed) > maxEnergyHistorySize THEN Tail(pushed) ELSE pushed

\* detectBeat(currentEnergy) at wall-clock time t: the new history, the new
\* lastBeatTime and the returned flag.
detectBeat(h, last, e, t) ==
    LET h2 == PushEnergy(h, e)
        beatDetected == AboveThreshold(h2, e) /\ RefractoryElapsed(t - last)
    IN  [history |-> h2,
         lastBeatTime |-> IF beatDetected THEN t ELSE last,
         beat |-> beatDetected]

\* AudioUtils.getDominantFrequency: index of the first maximal bin (strict >,
\* starting from maxValue 0); the frequency is index*sampleRate/fftSize, kept
\* as the index.
\* The scan with >=, which keeps the last maximal bin.
RECURSIVE ScanMaxLast(_, _, _, _)
ScanMaxLast(fd, lo, hi, best) ==
    IF lo > hi THEN best
    ELSE IF lo = hi
    THEN (IF fd[lo] >= best.maxValue
          THEN [maxIndex |-> lo - 1, maxValue |-> fd[lo]]
          ELSE best)
    ELSE LET left == ScanMaxLast(fd, lo, (lo + hi) \div 2, best)
         IN  IF left.maxValue >= 0
             THEN ScanMaxLast(fd, (lo + hi) \div 2 + 1, hi, left)
             ELSE left

\* The loop of getDominantFrequency over bins lo-1 .. hi-1, entered with
\* `best` = (maxIndex, maxValue): a bin replaces the best one when it is
\* strictly greater.  The range is scanned left half first (its result is
\* needed, and so computed, before the right half is entered).
RECURSIVE ScanMax(_, _, _, _)
ScanMax(fd, lo, hi, best) ==
    IF lo > hi THEN best
    ELSE IF lo = hi
    THEN (IF fd[lo] > best.maxValue
          THEN [maxIndex |-> lo - 1, maxValue |-> fd[lo]]
          ELSE best)
    ELSE LET left == ScanMax(fd, lo, (lo + hi) \div 2, best)
         IN  IF left.maxValue >= 0
             THEN ScanMax(fd, (lo + hi) \div 2 + 1, hi, left)
             ELSE left

getDominantFrequency(fd) ==
    ScanMax(fd, 1, Len(fd), [maxIndex |-> 0, maxValue |-> 0]).maxIndex

\* The five fractional ranges, as start/end over 100.
frequencyBands ==
    [bass |-> <<0, 10>>, lowMid |-> <<10, 25>>, mid |-> <<25, 50>>,
     highMid |-> <<50, 75>>, treble |-> <<75, 100>>]

BandNames == {"bass", "lowMid", "mid", "highMid", "treble"}

\* `for (let i = startBin; i < endBin; i++) sum += data[i]`, over the
\* 1-based positions lo..hi, summed half by half.
RECURSIVE RangeSum(_, _, _)
RangeSum(fd, lo, hi) ==
    IF lo > hi THEN 0
    ELSE IF lo = hi THEN fd[lo]
    ELSE RangeSum(fd, lo, (lo + hi) \div 2) + RangeSum(fd, (lo + hi) \div 2 + 1, hi)

\* Object.keys(this.frequencyBands), in insertion order
BandOrder == <<"bass", "lowMid", "mid", "highMid", "treble">>

\* Math.floor(band.start * binCount); 0.25, 0.5, 0.75 and 1.0 are exact in
\* binary and 0.1 * n never rounds below a whole number, so the floor is
\* that of the exact product.
StartBin(b, n) == (frequencyBands[b][1] * n) \div 100

\* The end bin rounded to the nearest whole number.
EndBinRounded(b, n) == (frequencyBands[b][2] * n + 50) \div 100

\* Math.floor(band.end * binCount)
EndBin(b, n) == (frequencyBands[b][2] * n) \div 100

\* analyzeFrequencyBands: per band the sum over [startBin, endBin) and the
\* bin count; the reported value is sum/count/255 (NaN when count is 0).
analyzeFrequencyBands(fd) ==
    [b \in BandNames |->
        LET startBin == StartBin(b, Len(fd))
            endBin == EndBin(b, Len(fd))
        IN  [sum |-> RangeSum(fd, startBin + 1, endBin),
             count |-> endBin - startBin]]

\* AudioUtils.analyzeFrequencyBands: the four inner boundaries bassEnd,
\* lowMidEnd, midEnd, highMidEnd and the ranges its five loops run over.
UtilsBandRanges(n) ==
    LET bassEnd == (10 * n) \div 100
        lowMidEnd == (25 * n) \div 100
        midEnd == (50 * n) \div 100
        highMidEnd == (75 * n) \div 100
    IN  [bass |-> <<0, bassEnd>>, lowMid |-> <<bassEnd, lowMidEnd>>,
         mid |-> <<lowMidEnd, midEnd>>, highMid |-> <<midEnd, highMidEnd>>,
         treble |-> <<highMidEnd, n>>]

InitialAnalysis ==
    [volume |-> 0, energy |-> 0, beat |-> FALSE, dominantFrequency |-> 0,
     bands |-> <<>>, spectrum |-> <<>>, waveform |-> <<>>]

\* Whether audio of a media element reaches analyser node a.
Fed(a, src, e) == src.node # 0 /\ <<src.node, a>> \in e

NoSmooth == [exp |-> 0 - 1, num |-> <<>>]

RECURSIVE Pow10(_)
Pow10(k) == IF k <= 0 THEN 1 ELSE 10 * Pow10(k - 1)

\* MathUtils.lerp(last, new, 0.7) = last + (new - last)*0.7 on a value
\* last = n/10^k and a byte b: (3*n + 7*b*10^k)/10^(k+1).
LerpSmooth(n, b, k) == 3 * n + 7 * b * Pow10(k)

\* getSmoothedFrequencyData on the retained array `last` and the current
\* frequencyData fd (not null): the first call copies, later calls blend.
getSmoothedFrequencyData(last, fd) ==
    IF last = NoSmooth
    THEN [exp |-> 0, num |-> fd]
    ELSE [exp |-> last.exp + 1,
          num |-> [i \in 1..Len(fd) |-> LerpSmooth(last.num[i], fd[i], last.exp)]]

NoOutcome ==
    [op |-> "none", threw |-> FALSE, result |-> "none", cause |-> "none",
     el |-> 0, afterDispose |-> FALSE, caller |-> "none"]

Observed(op, threw, result, cause, el, after, caller) ==
    [op |-> op, threw |-> threw, result |-> result, cause |-> cause,
     el |-> el, afterDispose |-> after, caller |-> caller]

\* ------------------------------------------------- AudioAnalyzer.initialize
InitializeUncaught(cause, el, after) ==
    Observed("initialize", TRUE, "none", cause, el, after, "app")

\* The catch block of initialize: the error is logged and false is returned.
InitializeCaught(cause, el, after) ==
    Observed("initialize", FALSE, "false", cause, el, after, "app")

\* The part of initialize after the optional await: createAnalyser, the
\* guarded createMediaElementSource/connect, the two Uint8Arrays.  Every
\* exception is caught by the try/catch and becomes the result false.
InitializeRest(ctx, el, after) ==
    IF ctx = 0
    THEN \* this.audioContext.createAnalyser() on null: TypeError, caught
         /\ outcome' = InitializeCaught("state", el, after)
         /\ UNCHANGED <<analyser, source, frequencyData, timeData, nodeCount,
                        edges, boundBy>>
    ELSE LET a == nodeCount + 1
             s == nodeCount + 2
         IN  IF source = NoSource /\ boundBy[el] # "none"
             THEN \* createMediaElementSource throws InvalidStateError, caught
                  /\ analyser' = a
                  /\ nodeCount' = a
                  /\ outcome' = InitializeCaught("attach", el, after)
                  /\ UNCHANGED <<source, frequencyData, timeData, edges, boundBy>>
             ELSE /\ analyser' = a
                  /\ IF source = NoSource
                     THEN /\ source' = [node |-> s, el |-> el]
                          /\ boundBy' = [boundBy EXCEPT ![el] = "self"]
                          /\ edges' = edges \cup {<<s, a>>, <<a, Dest>>}
                          /\ nodeCount' = s
                     ELSE /\ nodeCount' = a
                          /\ UNCHANGED <<source, boundBy, edges>>
                  /\ frequencyData' = ZeroArray
                  /\ timeData' = ZeroArray
                  /\ outcome' = Observed("initialize", FALSE, "true", "none",
                                         el, after, "app")

\* initialize(audioElement) up to its first suspension point.  ctxOk: the
\* platform can create an AudioContext; suspended: the new context starts
\* suspended, so the function awaits resume() and continues later.
InitializeCall(el, ctxOk, suspended) ==
    /\ initCount < MaxInits
    /\ initCount' = initCount + 1
    /\ ctxRequests' = ctxRequests + 1
    /\ justDisposed' = FALSE
    /\ UNCHANGED <<lastFrequencyData, lastBeatTime, energyHistory, currentAnalysis,
                   closedCtx, now, ai, cycles, beatLog, solo, hostVars>>
    /\ IF ~ctxOk
       THEN \* AudioUtils.getAudioContext() throws, caught
            /\ outcome' = InitializeCaught("context", el, justDisposed)
            /\ UNCHANGED <<audioContext, analyser, source, frequencyData, timeData,
                           nodeCount, edges, boundBy, pendingInit>>
       ELSE LET c == initCount + 1
            IN  /\ audioContext' = c
                /\ IF suspended
                   THEN /\ pendingInit' = pendingInit \cup
                              {[id |-> c, el |-> el, after |-> justDisposed]}
                        /\ outcome' = Observed("initialize", FALSE, "pending", "none",
                                               el, justDisposed, "app")
                        /\ UNCHANGED <<analyser, source, frequencyData, timeData,
                                       nodeCount, edges, boundBy>>
                   ELSE /\ UNCHANGED pendingInit
                        /\ InitializeRest(c, el, justDisposed)
    /\ everInitialized' = (everInitialized \/ outcome'.result = "true")

\* initialize(audioElement) called on its own
Initialize(el, ctxOk, suspended) ==
    /\ InitializeCall(el, ctxOk, suspended)
    /\ UNCHANGED app

\* The continuation of initialize after `await this.audioContext.resume()`.
\* The promise rejects when the platform refuses or the context was closed.
InitializeResume(p, resumeOk) ==
    /\ p \in pendingInit
    /\ pendingInit' = pendingInit \ {p}
    /\ justDisposed' = FALSE
    /\ UNCHANGED <<audioContext, lastFrequencyData, lastBeatTime, energyHistory,
                   currentAnalysis, closedCtx, ctxRequests, now, ai, app, initCount, cycles,
                   beatLog, solo, hostVars>>
    /\ IF ~resumeOk \/ p.id \in closedCtx
       THEN /\ outcome' = InitializeCaught("resume", p.el, p.after)
            /\ UNCHANGED <<analyser, source, frequencyData, timeData, nodeCount,
                           edges, boundBy>>
       ELSE InitializeRest(audioContext, p.el, p.after)
    /\ everInitialized' = (everInitialized \/ outcome'.result = "true")

\* --------------------------------------------------- AudioAnalyzer.dispose
Dispose ==
    /\ source' = NoSource
    /\ analyser' = 0
    /\ edges' = {e \in edges : e[1] # source.node /\ e[1] # analyser}
    /\ closedCtx' = IF audioContext # 0 THEN closedCtx \cup {audioContext} ELSE closedCtx
    /\ audioContext' = 0
    /\ frequencyData' = <<>>
    /\ timeData' = <<>>
    /\ energyHistory' = <<>>
    /\ solo' = [solo EXCEPT !.history = <<>>]
    /\ justDisposed' = TRUE
    /\ outcome' = Observed("dispose", FALSE, "none", "none", 0, FALSE, "app")
    /\ UNCHANGED <<lastFrequencyData, lastBeatTime, currentAnalysis, nodeCount,
                   boundBy, pendingInit, ctxRequests, now, ai, app, initCount, cycles, beatLog,
                   everInitialized, hostVars>>

\* ---------------------------------------------------- AudioAnalyzer.analyze
\* What analyze() writes when called by `caller` while the hardware buffers
\* hold fdIn/tdIn.  With no analyser it returns the retained currentAnalysis;
\* with an analyser but null buffers getByteFrequencyData(null) raises a
\* TypeError before anything is written.  An analyser no source is connected
\* to delivers silence.
AnalyzeThrows == analyser # 0 /\ frequencyData = <<>>

AnalyzeWrites(caller, fdIn, tdIn) ==
    IF analyser = 0 \/ frequencyData = <<>>
    THEN UNCHANGED <<frequencyData, timeData, lastBeatTime, energyHistory,
                     currentAnalysis, beatLog, solo>>
    ELSE LET fed == Fed(analyser, source, edges)
             fd == IF fed THEN fdIn ELSE ZeroArray
             td == IF fed THEN tdIn ELSE SilentWave
             energy == calculateEnergy(fd)
             d == detectBeat(energyHistory, lastBeatTime, energy, now)
             ds == detectBeat(solo.history, solo.lastBeatTime, energy, now)
         IN  /\ frequencyData' = fd
             /\ timeData' = td
             /\ energyHistory' = d.history
             /\ lastBeatTime' = d.lastBeatTime
             /\ currentAnalysis' =
                    [volume |-> calculateVolume(td), energy |-> energy,
                     beat |-> d.beat,
                     dominantFrequency |-> getDominantFrequency(fd),
                     bands |-> analyzeFrequencyBands(fd),
                     spectrum |-> fd, waveform |-> td]
             /\ beatLog' = IF d.beat THEN Append(beatLog, now) ELSE beatLog
             /\ solo' = IF caller = "v2d" THEN ds ELSE solo

Analyze(caller, fdIn, tdIn) ==
    /\ cycles < MaxCycles
    /\ cycles' = cycles + 1
    /\ justDisposed' = FALSE
    /\ AnalyzeWrites(caller, fdIn, tdIn)
    /\ outcome' = IF analyser = 0
                  THEN Observed("analyze", FALSE, "stale", "none", 0, FALSE, caller)
                  ELSE IF AnalyzeThrows
                  THEN Observed("analyze", TRUE, "none", "null-buffer", 0, FALSE, caller)
                  ELSE Observed("analyze", FALSE, "fresh", "none", 0, FALSE, caller)
    /\ UNCHANGED <<audioContext, analyser, source, lastFrequencyData, platformVars,
                   now, ai, app, initCount, everInitialized, hostVars>>

\* getVisualizationData(barCount) reads this.frequencyData through
\* getSmoothedFrequencyData: Array.from(null), or null.length in the loop
\* header, raises a TypeError when the buffer is null.
SmoothThrows(fd) == fd = <<>>

\* The array getVisualizationData(bars) returns for the smoothed data
\* `smoothed` (numerators over 10^exp): binSize = floor(length / bars),
\* and value i is ((sum of bins [start, end)) / binSize) / 255, then raised
\* to the power 0.7.  A value is kept as the fraction n/d it has before the
\* power, which maps [0,1] onto [0,1] and leaves NaN as NaN; with
\* binSize = 0 the mean is 0/0, NaN.
getVisualizationData(smoothed, bars) ==
    LET binSize == Len(smoothed.num) \div bars
    IN  [i \in 1..bars |->
            LET start == (i - 1) * binSize
                end == start + binSize
            IN  [start |-> start, end |-> end,
                 nan |-> (binSize = 0),
                 n |-> SeqSum(SubSeq(smoothed.num, start + 1, end)),
                 d |-> binSize * 255 * Pow10(smoothed.exp)]]

\* getVisualizationData(n): getSmoothedFrequencyData, then n
\* bucket means.  Only the smoothing state is written.
GetVisualizationData(caller, n) ==
    /\ cycles < MaxCycles
    /\ cycles' = cycles + 1
    /\ justDisposed' = FALSE
    /\ UNCHANGED <<audioContext, analyser, source, frequencyData, timeData,
                   lastBeatTime, energyHistory, currentAnalysis, platformVars, now, ai, app,
                   initCount, beatLog, solo, everInitialized, hostVars>>
    /\ IF SmoothThrows(frequencyData)
       THEN /\ outcome' = Observed("getVisualizationData", TRUE, "none", "null-buffer",
                                   0, FALSE, caller)
            /\ UNCHANGED lastFrequencyData
       ELSE /\ lastFrequencyData' = getSmoothedFrequencyData(lastFrequencyData, frequencyData)
            /\ outcome' = Observed("getVisualizationData", FALSE, "series", "none",
                                   n, FALSE, caller)

\* The two extractor calls at the head of a visualizer frame:
\* analyze(), then getVisualizationData(64).
ExtractThrows == frequencyData = <<>>

ExtractForFrame(caller, fdIn, tdIn) ==
    /\ AnalyzeWrites(caller, fdIn, tdIn)
    /\ IF ExtractThrows
       THEN UNCHANGED lastFrequencyData
       ELSE lastFrequencyData' = getSmoothedFrequencyData(lastFrequencyData, frequencyData')
    /\ justDisposed' = FALSE
    /\ UNCHANGED <<audioContext, analyser, source, platformVars, initCount, cycles,
                   everInitialized>>

\* The wall clock advances by d milliseconds, up to `cap`.
Tick(d, cap) ==
    /\ now + d <= cap
    /\ \A t \in DOMAIN timers : timers[t] >= now + d
    /\ now' = now + d
    /\ UNCHANGED <<extractorVars, hostVars, ai, app>>

\* ------------------------------------- Visualizer3D.addEventListeners
\* Pointer coordinates are pixels; targetRotation is kept in hundredths of a
\* radian, so a delta of one pixel (delta * 0.01) is one unit.
Coords == 0..MaxCoord

RotationInRange(r) ==
    /\ r.x \in -(pitchAmplitude + MaxRot)..(pitchAmplitude + MaxRot)
    /\ r.y \in -MaxRot..MaxRot

\* callback of setTimeout(..., 5000) in mouseup/touchend
ResumeAutoRotate == TRUE

\* 'mousedown'
MouseDown(x, y) ==
    /\ isMouseDown' = TRUE
    /\ mouseX' = x
    /\ mouseY' = y
    /\ autoRotate' = FALSE
    /\ UNCHANGED <<targetRotation, timers, lastGestureEnd, resumeLog, now, ai, app,
                   extractorVars, loopVars>>

\* the drag body shared by 'mousemove' and 'touchmove'
DragTo(x, y) ==
    LET r == [targetRotation EXCEPT !.x = @ - (y - mouseY),
                                    !.y = @ + (x - mouseX)]
    IN  /\ RotationInRange(r)
        /\ targetRotation' = r
        /\ mouseX' = x
        /\ mouseY' = y

\* 'mousemove'
MouseMove(x, y) ==
    /\ IF isMouseDown
       THEN DragTo(x, y)
       ELSE UNCHANGED <<targetRotation, mouseX, mouseY>>
    /\ UNCHANGED <<autoRotate, isMouseDown, timers, lastGestureEnd, resumeLog, now, ai, app,
                   extractorVars, loopVars>>

\* the body shared by 'mouseup' and 'touchend'
EndGesture ==
    /\ Len(timers) < MaxTimers
    /\ isMouseDown' = FALSE
    /\ timers' = Append(timers, now + resumeDelay)
    /\ lastGestureEnd' = IF isMouseDown THEN now ELSE lastGestureEnd
    /\ UNCHANGED <<autoRotate, targetRotation, mouseX, mouseY, resumeLog, now, ai, app,
                   extractorVars, loopVars>>

\* 'mouseup'
MouseUp == EndGesture

\* 'touchstart' with `touches` fingers on the surface
TouchStart(touches, x, y) ==
    /\ IF touches = 1
       THEN /\ isMouseDown' = TRUE
            /\ mouseX' = x
            /\ mouseY' = y
            /\ autoRotate' = FALSE
       ELSE UNCHANGED <<isMouseDown, mouseX, mouseY, autoRotate>>
    /\ UNCHANGED <<targetRotation, timers, lastGestureEnd, resumeLog, now, ai, app,
                   extractorVars, loopVars>>

\* 'touchmove'
TouchMove(touches, x, y) ==
    /\ IF isMouseDown /\ touches = 1
       THEN DragTo(x, y)
       ELSE UNCHANGED <<targetRotation, mouseX, mouseY>>
    /\ UNCHANGED <<autoRotate, isMouseDown, timers, lastGestureEnd, resumeLog, now, ai, app,
                   extractorVars, loopVars>>

\* 'touchend'
TouchEnd == EndGesture

\* The host runs the oldest setTimeout callback once its delay has elapsed.
TimerFire ==
    /\ timers # <<>>
    /\ Head(timers) <= now
    /\ timers' = Tail(timers)
    /\ autoRotate' = ResumeAutoRotate
    /\ resumeLog' = IF autoRotate THEN resumeLog
                    ELSE [at |-> now, during |-> isMouseDown,
                          sinceEnd |-> now - lastGestureEnd]
    /\ UNCHANGED <<targetRotation, isMouseDown, mouseX, mouseY, lastGestureEnd, now, ai, app,
                   extractorVars, loopVars>>

\* updateCamera(analysis), the lines that write targetRotation: with
\* autoRotate the yaw target advances by energy * 0.01 and the pitch target
\* becomes sin(time * 0.5) * 0.1.  The energy-driven part of the yaw is
\* accumulated apart, as a sum of energy numerators; pitch is the value of
\* the sine term in hundredths, an input of [-10, 10].
updateCameraTarget(r, auto, energy, pitch) ==
    IF auto THEN [r EXCEPT !.x = pitch, !.yEnergy = @ + energy] ELSE r

PitchSamples == {-pitchAmplitude, 0, pitchAmplitude}

\* In the first frames this.time is a few multiples of 0.016 and
\* sin(time * 0.5) * 0.1 is below half a hundredth.
EarlyPitch == 0

UpdateCamera(energy, pitch) ==
    /\ targetRotation' = updateCameraTarget(targetRotation, autoRotate, energy, pitch)
    /\ UNCHANGED <<autoRotate, isMouseDown, mouseX, mouseY, timers, lastGestureEnd,
                   resumeLog, now, ai, app, extractorVars, loopVars>>

\* -------------------------------------------------------------- ColorUtils
\* A fraction is a record [n, d] standing for n/d; an energy is a fraction
\* in [0, 1].
RECURSIVE GCD(_, _)
GCD(a, b) == IF b = 0 THEN a ELSE GCD(b, a % b)

Reduce(r) ==
    LET g == GCD(r.n, r.d)
    IN  IF g = 0 THEN r ELSE [n |-> r.n \div g, d |-> r.d \div g]

defaultEnergy == [n |-> 1, d |-> 2]

\* Math.max(lo, Math.min(hi, x)) on a fraction x
Clamp(lo, hi, x) ==
    IF x.n > hi * x.d THEN [n |-> hi, d |-> 1]
    ELSE IF x.n < lo * x.d THEN [n |-> lo, d |-> 1]
    ELSE x

\* hue2rgb(p, q, t) of hslToRgb.  p and q are numerators over a common
\* denominator D and t is in 360ths; the result is a numerator over 60 * D.
hue2rgb(p, q, t) ==
    LET u == IF t < 0 THEN t + 360 ELSE IF t > 360 THEN t - 360 ELSE t
    IN  IF u < 60 THEN 60 * p + (q - p) * u
        ELSE IF u < 180 THEN 60 * q
        ELSE IF u < 240 THEN 60 * p + (q - p) * (240 - u)
        ELSE 60 * p

\* Math.round(c * 255) for the channel c = n / den (Math.round(x) is
\* floor(x + 1/2))
Round255(n, den) == (510 * n + den) \div (2 * den)

\* ColorUtils.hslToRgb(h, s, l): h in degrees, s and l fractions of percents.
hslToRgb(h, s, l) ==
    LET s1 == Reduce([n |-> s.n, d |-> 100 * s.d])
        l1 == Reduce([n |-> l.n, d |-> 100 * l.d])
        D  == s1.d * l1.d
        q  == IF 2 * l1.n < l1.d
              THEN l1.n * (s1.d + s1.n)
              ELSE l1.n * s1.d + s1.n * l1.d - l1.n * s1.n
        p  == 2 * l1.n * s1.d - q
    IN  << Round255(hue2rgb(p, q, h + 120), 60 * D),
           Round255(hue2rgb(p, q, h), 60 * D),
           Round255(hue2rgb(p, q, h - 120), 60 * D) >>

\* the table `palettes` of generateMoodPalette
palettes ==
    [energetic  |-> << [h |-> 0,   s |-> 85, l |-> 60], [h |-> 30,  s |-> 90, l |-> 55],
                       [h |-> 60,  s |-> 80, l |-> 65], [h |-> 340, s |-> 85, l |-> 60] >>,
     calm       |-> << [h |-> 210, s |-> 60, l |-> 70], [h |-> 180, s |-> 40, l |-> 75],
                       [h |-> 120, s |-> 30, l |-> 80], [h |-> 240, s |-> 45, l |-> 75] >>,
     melancholy |-> << [h |-> 240, s |-> 30, l |-> 40], [h |-> 260, s |-> 35, l |-> 45],
                       [h |-> 200, s |-> 25, l |-> 50], [h |-> 280, s |-> 40, l |-> 35] >>,
     uplifting  |-> << [h |-> 50,  s |-> 80, l |-> 65], [h |-> 120, s |-> 70, l |-> 60],
                       [h |-> 200, s |-> 85, l |-> 65], [h |-> 300, s |-> 75, l |-> 70] >>,
     neutral    |-> << [h |-> 220, s |-> 50, l |-> 60], [h |-> 280, s |-> 60, l |-> 65],
                       [h |-> 320, s |-> 70, l |-> 60], [h |-> 180, s |-> 55, l |-> 65] >>]

\* Property names every object literal inherits from Object.prototype: the
\* lookup palettes[name] finds them, and what it finds is truthy and is not
\* an array.
ObjectPrototype ==
    {"constructor", "toString", "valueOf", "hasOwnProperty", "__proto__"}

\* `palettes[mood] || palettes.neutral`.  A mood that is not a string is
\* converted to one by the property lookup (undefined is "undefined").
basePalette(mood) ==
    IF mood \in DOMAIN palettes THEN [isArray |-> TRUE, colors |-> palettes[mood]]
    ELSE IF mood \in ObjectPrototype THEN [isArray |-> FALSE, colors |-> <<>>]
    ELSE [isArray |-> TRUE, colors |-> palettes.neutral]

\* the callback of basePalette.map: saturation color.s * (0.5 + energy * 0.5)
\* and lightness color.l * (0.6 + energy * 0.4), clamped, then hslToRgb
AdjustColor(color, energy) ==
    LET s == Clamp(20, 100, [n |-> color.s * (energy.d + energy.n), d |-> 2 * energy.d])
        l == Clamp(30, 80, [n |-> color.l * (3 * energy.d + 2 * energy.n),
                            d |-> 5 * energy.d])
    IN  hslToRgb(color.h, s, l)

\* generateMoodPalette with a hue offset that grows with the calls made so far
generateMoodPaletteCarried(mood, energy) ==
    LET base == basePalette(mood)
    IN  IF ~base.isArray
        THEN [threw |-> TRUE, palette |-> <<>>]
        ELSE [threw |-> FALSE,
              palette |-> [i \in 1..Len(base.colors) |->
                  AdjustColor([base.colors[i] EXCEPT
                                  !.h = (@ + 10 * Cardinality(paletteLog)) % 360],
                              energy)]]

\* ColorUtils.generateMoodPalette(mood, energy): basePalette.map(...) raises
\* a TypeError when basePalette has no map method.
generateMoodPalette(mood, energy) ==
    LET base == basePalette(mood)
    IN  IF ~base.isArray
        THEN [threw |-> TRUE, palette |-> <<>>]
        ELSE [threw |-> FALSE,
              palette |-> [i \in 1..Len(base.colors) |->
                  AdjustColor(base.colors[i], energy)]]

\* ----------------------------------------------------------- AIIntegration
validMoods == {"energetic", "calm", "melancholy", "uplifting", "neutral"}

\* A mood analysis: energy is the fraction n/d, or NaN.
MoodResult(mood, nan, n, d, src) ==
    [mood |-> mood, energy |-> [nan |-> nan, n |-> n, d |-> d], source |-> src]

\* validateMood(mood): validMoods.includes(mood) ? mood : 'neutral'
validateMood(mood) == IF mood \in validMoods THEN mood ELSE "neutral"

\* getFallbackMood(): neutral, 0.5
getFallbackMood == MoodResult("neutral", FALSE, 5, 10, "default")

\* this.defaultMoods, looked up by the genre (the key the genre contains)
defaultMoods(genre) ==
    CASE genre \in {"electronic", "rock", "metal", "rap", "hiphop"} -> "energetic"
      [] genre \in {"pop", "reggae"} -> "uplifting"
      [] genre \in {"classical", "ambient", "folk"} -> "calm"
      [] genre = "blues" -> "melancholy"
      [] OTHER -> "neutral"

energeticKeywords ==
    {"dance", "party", "energy", "power", "rock", "metal", "fast", "beat", "pump"}
calmKeywords ==
    {"slow", "soft", "peaceful", "calm", "ambient", "chill", "relax", "meditation"}
melancholyKeywords == {"sad", "blue", "melancholy", "sorrow", "lonely", "dark", "pain"}
upliftingKeywords == {"happy", "joy", "bright", "sunshine", "love", "hope", "celebration"}

\* Track metadata: key is the cache key (title_artist, lower case), genre
\* the genre and words the keywords the text `title artist genre` contains;
\* isNull is a call without a metadata object (metadata.title raises).
NullMetadata == [isNull |-> TRUE, key |-> "", genre |-> "", words |-> {}]

\* Math.max(lo, Math.min(hi, e)) on tenths
ClampTenths(lo, hi, e) == IF e > hi THEN hi ELSE IF e < lo THEN lo ELSE e

\* fallbackMoodAnalysis(metadata): energies in tenths.  A TypeError raised
\* on the metadata is caught and answered with getFallbackMood().
fallbackMoodAnalysis(metadata) ==
    IF metadata.isNull THEN getFallbackMood
    ELSE
    LET genreMood == defaultMoods(metadata.genre)
        energeticCount == Cardinality(metadata.words \cap energeticKeywords)
        calmCount == Cardinality(metadata.words \cap calmKeywords)
        energy1 == IF energeticCount > 0 THEN ClampTenths(0, 10, 7 + energeticCount)
                   ELSE IF calmCount > 0 THEN ClampTenths(0, 10, 3 - calmCount)
                   ELSE 5
        mood1 == IF genreMood # "neutral" THEN genreMood
                 ELSE IF energeticCount > 0 THEN "energetic"
                 ELSE IF calmCount > 0 THEN "calm"
                 ELSE "neutral"
        sad == metadata.words \cap melancholyKeywords # {}
        glad == metadata.words \cap upliftingKeywords # {}
        mood2 == IF sad THEN "melancholy" ELSE IF glad THEN "uplifting" ELSE mood1
        energy2 == IF sad THEN ClampTenths(2, 10, energy1 - 3)
                   ELSE IF glad THEN ClampTenths(0, 8, energy1 + 2)
                   ELSE energy1
    IN  MoodResult(validateMood(mood2), FALSE, ClampTenths(0, 10, energy2), 10, "fallback")

Digits == <<"0", "1", "2", "3", "4", "5", "6", "7", "8", "9">>
DigitValue(c) == (CHOOSE i \in DOMAIN Digits : Digits[i] = c) - 1

\* the number of digits of s from position i on, up to the first other char
RECURSIVE DigitRun(_, _)
DigitRun(s, i) ==
    IF i > Len(s) \/ s[i] = "." THEN 0 ELSE 1 + DigitRun(s, i + 1)

RECURSIVE NumberOf(_)
NumberOf(ds) ==
    IF ds = <<>> THEN 0
    ELSE 10 * NumberOf(SubSeq(ds, 1, Len(ds) - 1)) + DigitValue(ds[Len(ds)])

\* parseFloat(s) on a string of digits and dots (what /([\d.]+)/ captures):
\* the longest prefix digits* [. digits*] holding a digit is read, and NaN
\* is returned when there is none.
parseFloat(s) ==
    LET intLen == DigitRun(s, 1)
        fracLen == IF intLen < Len(s) THEN DigitRun(s, intLen + 2) ELSE 0
        ds == SubSeq(s, 1, intLen) \o SubSeq(s, intLen + 2, intLen + 1 + fracLen)
    IN  IF intLen + fracLen = 0
        THEN [nan |-> TRUE, n |-> 0, d |-> 1]
        ELSE [nan |-> FALSE, n |-> NumberOf(ds), d |-> Pow10(fracLen)]

\* Math.max(0, Math.min(1, energy)): NaN passes through both
ClampUnit(e) ==
    IF e.nan THEN e
    ELSE IF e.n > e.d THEN [nan |-> FALSE, n |-> 1, d |-> 1]
    ELSE e

\* parseAIMoodResponse(apiResponse): a response without candidates raises a
\* TypeError, answered with getFallbackMood(); otherwise the text is
\* matched: mood "" stands for no `mood:` match, energy <<>> for no
\* `energy:` match.
parseAIMoodResponse(apiResponse) ==
    IF apiResponse.kind = "nocandidates" THEN getFallbackMood
    ELSE LET mood == IF apiResponse.mood = "" THEN "neutral" ELSE apiResponse.mood
             energy == IF apiResponse.energy = <<>>
                       THEN [nan |-> FALSE, n |-> 5, d |-> 10]
                       ELSE parseFloat(apiResponse.energy)
             clamped == ClampUnit(energy)
         IN  MoodResult(validateMood(mood), clamped.nan, clamped.n, clamped.d, "ai")

CacheHas(cache, key) == \E c \in cache : c.key = key
CacheGet(cache, key) == (CHOOSE c \in cache : c.key = key).result

\* analyzeMood(metadata) with the remote answer `response`: the result and
\* the cache it leaves.
analyzeMood(a, metadata, response) ==
    IF metadata.isNull
    THEN [result |-> fallbackMoodAnalysis(metadata), moodCache |-> a.moodCache]
    ELSE IF CacheHas(a.moodCache, metadata.key)
    THEN [result |-> CacheGet(a.moodCache, metadata.key), moodCache |-> a.moodCache]
    ELSE IF ~a.apiKey
    THEN [result |-> fallbackMoodAnalysis(metadata), moodCache |-> a.moodCache]
    ELSE IF response.kind \in {"reject", "status"}
    THEN [result |-> fallbackMoodAnalysis(metadata), moodCache |-> a.moodCache]
    ELSE LET result == parseAIMoodResponse(response)
         IN  [result |-> result,
              moodCache |-> a.moodCache \cup {[key |-> metadata.key, result |-> result]}]

\* No analyzeTrack promise has settled yet.
NoTrackAnalysis ==
    [settled |-> FALSE, rejected |-> FALSE, mood |-> "", source |-> "",
     energy |-> [nan |-> FALSE, n |-> 0, d |-> 1]]

\* new AIIntegration(): empty caches; apiKey is the key of the environment.
NewAIIntegration(apiKey) ==
    [apiKey |-> apiKey, moodCache |-> {}, calls |-> 0, resolved |-> NoTrackAnalysis]

\* ColorUtils.generateMoodPalette(mood, energy) as called by analyzeTrack:
\* it raises exactly when palettes[mood] || palettes.neutral has no map
\* method, whatever the energy (NaN included).
TrackPaletteThrows(mood) == ~basePalette(mood).isArray

\* analyzeTrack(metadata) (no album art): the mood analysis is awaited and
\* the palette for it attached; an error in the try block is answered from
\* the catch block with getFallbackMood() and its palette, and an error in
\* the catch block rejects the promise.
analyzeTrack(a, metadata, response) ==
    LET m == analyzeMood(a, metadata, response)
        threw == TrackPaletteThrows(m.result.mood)
        fb == getFallbackMood
        r == IF ~threw THEN m.result ELSE fb
    IN  [a EXCEPT !.moodCache = m.moodCache,
                  !.calls = @ + 1,
                  !.resolved = [settled |-> TRUE,
                                rejected |-> threw /\ TrackPaletteThrows(fb.mood),
                                mood |-> r.mood, source |-> r.source,
                                energy |-> r.energy]]

AnalyzeTrack(metadata, response) ==
    /\ ai.calls < MaxTracks
    /\ ai' = analyzeTrack(ai, metadata, response)
    /\ outcome' = Observed("analyzeTrack", FALSE, "resolved", "none", 0, FALSE, "app")
    /\ UNCHANGED <<analyzerVars, platformVars, now, initCount, cycles, justDisposed,
                   beatLog, solo, everInitialized, hostVars, app>>

\* clearCache()
ClearCache ==
    /\ ai' = [ai EXCEPT !.moodCache = {}]
    /\ outcome' = Observed("clearCache", FALSE, "none", "none", 0, FALSE, "app")
    /\ UNCHANGED <<analyzerVars, platformVars, now, initCount, cycles, justDisposed,
                   beatLog, solo, everInitialized, hostVars, app>>

\* ------------------------------------------------ host frame scheduling
RequestAnimationFrame(q, id, owner, loop) ==
    q \cup {[id |-> id, owner |-> owner, loop |-> loop]}

CancelAnimationFrame(q, id) == {cb \in q : cb.id # id}

Pending(owner) == {cb \in rafQueue : cb.owner = owner}

\* Everything of the extractor a frame may write, except `outcome`.
extractorState == <<analyzerVars, platformVars, initCount, cycles, justDisposed,
                    beatLog, solo, everInitialized>>

\* beatIntensity is 0 or 0.95^k: kept as k, with -1 for 0.
\* `this.beatIntensity *= this.beatDecay`
DecayBeat(k) == IF k < 0 THEN k ELSE k + 1

\* ------------------------------------------------------------ Visualizer2D
modes == <<"bars", "circles", "waves", "particles", "spiral">>

\* The object returned by PerformanceUtils.createAnimationLoop, stop():
\* isRunning = false, then cancelAnimationFrame(animationId) if it is set.
LoopStopToggling(loops, q, idx) ==
    [loops |-> [loops EXCEPT ![idx].isRunning = ~@],
     queue |-> IF loops[idx].animationId # 0
               THEN CancelAnimationFrame(q, loops[idx].animationId)
               ELSE q]

LoopStop(loops, q, idx) ==
    [loops |-> [loops EXCEPT ![idx].isRunning = FALSE],
     queue |-> IF loops[idx].animationId # 0
               THEN CancelAnimationFrame(q, loops[idx].animationId)
               ELSE q]

\* Visualizer2D.start(): a new animation loop is created and started.
Start2D ==
    /\ IF v2d.isRunning
       THEN UNCHANGED <<loops2D, rafQueue, rafCount>>
       ELSE /\ rafCount < MaxRaf
            /\ loops2D' = Append(loops2D, [isRunning |-> TRUE, animationId |-> rafCount + 1])
            /\ rafQueue' = RequestAnimationFrame(rafQueue, rafCount + 1, "v2d",
                                                 Len(loops2D) + 1)
            /\ rafCount' = rafCount + 1
    /\ v2d' = [v2d EXCEPT !.isRunning = TRUE,
                          !.animationLoop = IF v2d.isRunning THEN @ ELSE Len(loops2D) + 1,
                          !.stopped = FALSE]
    /\ outcome' = Observed("start2d", FALSE, "none", "none", 0, FALSE, "app")
    /\ UNCHANGED <<v3d, visualObjects, sceneObjects, gpuLive, geomCount, strayBody, paletteLog,
                   cameraVars, extractorState, now, ai, app>>

\* Visualizer2D.stop()
Stop2D ==
    LET r == IF v2d.animationLoop # 0
             THEN LoopStop(loops2D, rafQueue, v2d.animationLoop)
             ELSE [loops |-> loops2D, queue |-> rafQueue]
    IN  /\ v2d' = [v2d EXCEPT !.isRunning = FALSE, !.stopped = TRUE]
        /\ loops2D' = r.loops
        /\ rafQueue' = r.queue
        /\ outcome' = Observed("stop2d", FALSE, IF v2d.isRunning THEN "stopped" ELSE "idle",
                               "none", 0, FALSE, "app")
        /\ UNCHANGED <<v3d, visualObjects, sceneObjects, gpuLive, geomCount, rafCount,
                       strayBody, paletteLog, cameraVars, extractorState, now, ai, app>>

\* A switch that steps over the successor mode.
switchModeSkipping(v) ==
    [v EXCEPT !.currentMode = (@ + 2) % Len(modes), !.modeTransition = transitionSteps]

\* switchMode(): the cyclic successor mode; modeTransition = 1, kept in
\* steps of 0.02.
switchMode(v) ==
    [v EXCEPT !.currentMode = (@ + 1) % Len(modes), !.modeTransition = transitionSteps]

\* updateVisualState(analysis): the beat envelope and the random mode switch
\* (roll: Math.random() < 0.1), then the colour cycling: colorTransition is
\* kept in steps of 0.01 and, on reaching 1, is reset while currentColorIndex
\* moves to its successor modulo the length of the palette.
updateVisualState(v, beat, roll) ==
    [(IF beat /\ roll THEN switchMode(v) ELSE v)
        EXCEPT !.frames = @ + 1,
               !.beatDecays = DecayBeat(IF beat THEN 0 ELSE @),
               !.colorTransition = IF @ + 1 >= colorSteps THEN 0 ELSE @ + 1,
               !.currentColorIndex =
                   IF v.colorTransition + 1 >= colorSteps
                   THEN (@ + 1) % Len(v.colorPalette)
                   ELSE @]

\* updateTransitions(): modeTransition = max(0, modeTransition - 0.02)
updateTransitions(v) ==
    [v EXCEPT !.modeTransition = IF @ - 1 < 0 THEN 0 ELSE @ - 1]

\* initializeParticles(): maxParticles particles are pushed.  A particle is
\* kept as its life, counted in steps of its own decay; its maxLife is drawn
\* once and never written again, so it is a function of the slot.  seed
\* stands for the Math.random() draws of the lives.
particleMaxLife(i) == 1 + (i % MaxLife)

initializeParticles(seed) ==
    [i \in 1..maxParticles |-> (i + seed) % (MaxLife + 1)]

\* the particles that expire in the next renderParticles pass
Expiring(ps) == {i \in 1..Len(ps) : ps[i] - 1 <= 0}

\* renderParticles with a respawn that pushes a fresh particle
renderParticlesPushing(ps) ==
    [i \in 1..Len(ps) |-> ps[i] - 1] \o
    [k \in 1..Cardinality(Expiring(ps)) |-> MaxLife]

\* renderParticles(data, analysis): every particle of the array loses one
\* decay of life and, at life <= 0, is given its maxLife and a new position
\* in place.
renderParticles(ps) ==
    [i \in 1..Len(ps) |-> IF ps[i] - 1 <= 0 THEN particleMaxLife(i) ELSE ps[i] - 1]

\* the switch over this.modes[this.currentMode] of render()
drawMode(v) ==
    IF modes[v.currentMode + 1] = "particles"
    THEN [v EXCEPT !.particles = renderParticles(@)]
    ELSE v

\* The host runs callback cb of a loop created by createAnimationLoop:
\* `if (isRunning) { callback(timestamp); animationId = rAF(loop) }`, where
\* callback is Visualizer2D.render.  An error raised by render leaves the
\* loop without a next request.
Frame2D(cb, fdIn, tdIn, roll) ==
    /\ cb \in Pending("v2d")
    /\ rafCount < MaxRaf
    /\ UNCHANGED <<v3d, visualObjects, sceneObjects, gpuLive, geomCount, cameraVars, now, ai, app>>
    /\ IF ~loops2D[cb.loop].isRunning
       THEN /\ rafQueue' = rafQueue \ {cb}
            /\ outcome' = Observed("frame2d", FALSE, "idle", "none", 0, FALSE, "v2d")
            /\ UNCHANGED <<v2d, loops2D, rafCount, strayBody, paletteLog, extractorState>>
       ELSE IF ~v2d.audioAnalyzer \/ ~v2d.isRunning
       THEN \* render returns at once; the loop requests its next frame
            /\ rafQueue' = RequestAnimationFrame(rafQueue \ {cb}, rafCount + 1, "v2d", cb.loop)
            /\ loops2D' = [loops2D EXCEPT ![cb.loop].animationId = rafCount + 1]
            /\ rafCount' = rafCount + 1
            /\ outcome' = Observed("frame2d", FALSE, "skipped", "none", 0, FALSE, "v2d")
            /\ UNCHANGED <<v2d, strayBody, paletteLog, extractorState>>
       ELSE /\ strayBody' = (strayBody \/ v2d.stopped)
            /\ paletteLog' = paletteLog
            /\ ExtractForFrame("v2d", fdIn, tdIn)
            /\ IF ExtractThrows
               THEN /\ rafQueue' = rafQueue \ {cb}
                    /\ outcome' = Observed("frame2d", TRUE, "none", "null-buffer",
                                           0, FALSE, "v2d")
                    /\ UNCHANGED <<v2d, loops2D, rafCount>>
               ELSE /\ v2d' = updateTransitions(
                                drawMode(updateVisualState(v2d, currentAnalysis'.beat, roll)))
                    /\ rafQueue' = RequestAnimationFrame(rafQueue \ {cb}, rafCount + 1,
                                                         "v2d", cb.loop)
                    /\ loops2D' = [loops2D EXCEPT ![cb.loop].animationId = rafCount + 1]
                    /\ rafCount' = rafCount + 1
                    /\ outcome' = Observed("frame2d", FALSE, "rendered",
                                           IF /\ modes[v2d'.currentMode + 1] = "particles"
                                              /\ Expiring(v2d.particles) # {}
                                           THEN "respawned" ELSE "none",
                                           0, FALSE, "v2d")

\* Visualizer2D.setAudioAnalyzer
SetAudioAnalyzer2D ==
    /\ v2d' = [v2d EXCEPT !.audioAnalyzer = TRUE]
    /\ outcome' = Observed("setAudioAnalyzer2d", FALSE, "none", "none", 0, FALSE, "app")
    /\ UNCHANGED <<loops2D, v3d, visualObjects, sceneObjects, gpuLive, geomCount,
                   rafQueue, rafCount, strayBody, paletteLog, cameraVars, extractorState, now, ai, app>>

\* A resize that rebuilds the particle pool as the constructor does.
Resize2DReinitializing(w) ==
    /\ v2d' = [v2d EXCEPT !.width = w, !.particles = initializeParticles(0)]
    /\ outcome' = Observed("resize2d", FALSE, "none", "none", 0, FALSE, "host")
    /\ UNCHANGED <<loops2D, v3d, visualObjects, sceneObjects, gpuLive, geomCount,
                   rafQueue, rafCount, strayBody, paletteLog, cameraVars,
                   extractorState, now, ai, app>>

\* Visualizer2D.resize(): the canvas takes the size of its bounding box
Resize2D(w) ==
    /\ v2d' = [v2d EXCEPT !.width = w]
    /\ outcome' = Observed("resize2d", FALSE, "none", "none", 0, FALSE, "host")
    /\ UNCHANGED <<loops2D, v3d, visualObjects, sceneObjects, gpuLive, geomCount,
                   rafQueue, rafCount, strayBody, paletteLog, cameraVars,
                   extractorState, now, ai, app>>

\* A palette update that overwrites the entries of the array in place and
\* is observed when it has written the first two.
UpdateColorPalette2DInPlace(mood, energy) ==
    LET r == generateMoodPalette(mood, energy)
    IN  /\ v2d' = IF r.threw THEN v2d
                  ELSE [v2d EXCEPT !.colorPalette =
                            [i \in 1..Len(@) |-> IF i <= 2 THEN r.palette[i] ELSE @[i]]]
        /\ outcome' = Observed("updateColorPalette2d", r.threw, "none",
                               IF r.threw THEN "not-a-function" ELSE "none",
                               0, FALSE, "app")
        /\ UNCHANGED <<loops2D, v3d, visualObjects, sceneObjects, gpuLive, geomCount,
                       rafQueue, rafCount, strayBody, paletteLog, cameraVars,
                       extractorState, now, ai, app>>

\* Visualizer2D.updateColorPalette(mood, energy): this.colorPalette is given
\* the array generateMoodPalette returns; an error raised by
\* generateMoodPalette leaves this.colorPalette as it was.
UpdateColorPalette2D(mood, energy) ==
    LET r == generateMoodPalette(mood, energy)
    IN  /\ v2d' = IF r.threw THEN v2d ELSE [v2d EXCEPT !.colorPalette = r.palette]
        /\ outcome' = Observed("updateColorPalette2d", r.threw, "none",
                               IF r.threw THEN "not-a-function" ELSE "none",
                               0, FALSE, "app")
        /\ UNCHANGED <<loops2D, v3d, visualObjects, sceneObjects, gpuLive, geomCount,
                       rafQueue, rafCount, strayBody, paletteLog, cameraVars,
                       extractorState, now, ai, app>>

\* Visualizer2D.dispose(): stop(), then the loop is stopped again and dropped.
\* (removeEventListener is handed a new bound function and removes nothing.)
Dispose2D ==
    LET r == IF v2d.animationLoop # 0
             THEN LoopStop(loops2D, rafQueue, v2d.animationLoop)
             ELSE [loops |-> loops2D, queue |-> rafQueue]
    IN  /\ v2d' = [v2d EXCEPT !.isRunning = FALSE, !.stopped = TRUE, !.animationLoop = 0]
        /\ loops2D' = r.loops
        /\ rafQueue' = r.queue
        /\ outcome' = Observed("dispose2d", FALSE, "none", "none", 0, FALSE, "app")
        /\ UNCHANGED <<v3d, visualObjects, sceneObjects, gpuLive, geomCount, rafCount,
                       strayBody, paletteLog, cameraVars, extractorState, now, ai, app>>

\* ------------------------------------------------------------ Visualizer3D
\* The objects one create*Geometry call builds are kept as one batch:
\* `count` objects of construction number `gen` laid out for `variant`.
geometries == <<"bars", "sphere", "tunnel", "wave">>

ObjectCount(variant) ==
    CASE variant = "bars" -> barCount
      [] variant = "sphere" -> sphereCount
      [] variant = "tunnel" -> ringCount * pointsPerRing
      [] variant = "wave" -> gridSize * gridSize

Batch(variant, gen, count) == [variant |-> variant, gen |-> gen, count |-> count]

SeqRange(q) == {q[i] : i \in DOMAIN q}

\* The palette index create<Variant>Geometry gives the i-th object it
\* pushes (i from 0) for a palette of `len` colours: the object index for
\* bars and sphere, the ring for tunnel (pointsPerRing objects a ring) and
\* x + z for wave (gridSize objects a row).
LayoutSlot(variant, i, len) ==
    CASE variant = "tunnel" -> (i \div pointsPerRing) % len
      [] variant = "wave" -> ((i \div gridSize) + (i % gridSize)) % len
      [] OTHER -> i % len

\* The palette index the material colour of the i-th object of the
\* collection was last set from: by its constructor (slotRule "layout"), or
\* by the forEach of updateColorPalette, which takes index % length for
\* every variant (slotRule "index").
MaterialSlot(v, i) ==
    IF v.slotRule = "layout"
    THEN LayoutSlot(v.geometryType, i, Len(v.materialPalette))
    ELSE i % Len(v.materialPalette)

\* geometry.dispose() and material.dispose() of the first object of batch b
DisposeFirst(gl, b) ==
    {x \in gl : x.gen # b.gen} \cup
    {[x EXCEPT !.count = @ - 1] : x \in {y \in gl : y.gen = b.gen /\ y.count > 1}}

\* clearScene() without the final `this.visualObjects = []`
clearSceneKeeping(vo, so, gl, sceneLive) ==
    IF vo = <<>>
    THEN [visualObjects |-> vo, sceneObjects |-> so, gpuLive |-> gl, threw |-> FALSE]
    ELSE IF sceneLive
    THEN [visualObjects |-> vo, sceneObjects |-> so \ SeqRange(vo),
          gpuLive |-> gl \ SeqRange(vo), threw |-> FALSE]
    ELSE [visualObjects |-> vo, sceneObjects |-> so,
          gpuLive |-> DisposeFirst(gl, Head(vo)), threw |-> TRUE]

\* clearScene(): every object's geometry and material are disposed and the
\* object is removed from the scene; then the collection is emptied.  With
\* this.scene null, scene.remove raises a TypeError at the first object.
clearScene(vo, so, gl, sceneLive) ==
    IF vo = <<>>
    THEN [visualObjects |-> vo, sceneObjects |-> so, gpuLive |-> gl, threw |-> FALSE]
    ELSE IF sceneLive
    THEN [visualObjects |-> <<>>, sceneObjects |-> so \ SeqRange(vo),
          gpuLive |-> gl \ SeqRange(vo), threw |-> FALSE]
    ELSE [visualObjects |-> vo, sceneObjects |-> so,
          gpuLive |-> DisposeFirst(gl, Head(vo)), threw |-> TRUE]

\* create<Variant>Geometry(): clearScene(), then each object is built,
\* pushed and added to the scene; geometryType is set last.  With
\* this.scene null the first scene.add raises a TypeError.
createGeometry(variant, gen, vo, so, gl, gt, sceneLive) ==
    LET c == clearScene(vo, so, gl, sceneLive)
        all == Batch(variant, gen, ObjectCount(variant))
        one == Batch(variant, gen, 1)
    IN  IF c.threw
        THEN [visualObjects |-> c.visualObjects, sceneObjects |-> c.sceneObjects,
              gpuLive |-> c.gpuLive, geometryType |-> gt, threw |-> TRUE]
        ELSE IF sceneLive
        THEN [visualObjects |-> c.visualObjects \o <<all>>,
              sceneObjects |-> c.sceneObjects \cup {all},
              gpuLive |-> c.gpuLive \cup {all}, geometryType |-> variant,
              threw |-> FALSE]
        ELSE [visualObjects |-> c.visualObjects \o <<one>>,
              sceneObjects |-> c.sceneObjects,
              gpuLive |-> c.gpuLive \cup {one}, geometryType |-> gt, threw |-> TRUE]

IndexOf(q, x) == CHOOSE i \in DOMAIN q : q[i] = x

\* A switch that steps over the successor variant.
switchGeometrySkipping(gen, vo, so, gl, gt, sceneLive) ==
    LET nextIndex == ((IndexOf(geometries, gt) + 1) % Len(geometries)) + 1
    IN  createGeometry(geometries[nextIndex], gen, vo, so, gl, gt, sceneLive)

\* switchGeometry(): the cyclic successor of the current variant is built.
switchGeometry(gen, vo, so, gl, gt, sceneLive) ==
    LET nextIndex == (IndexOf(geometries, gt) % Len(geometries)) + 1
    IN  createGeometry(geometries[nextIndex], gen, vo, so, gl, gt, sceneLive)

\* Visualizer3D.stop() without the cancellation.
StopKeepsFrame(v, q) ==
    [v |-> [v EXCEPT !.isRunning = FALSE], queue |-> q]

\* Visualizer3D.stop(): isRunning = false; a pending frame is cancelled.
stop3D(v, q) ==
    [v |-> [v EXCEPT !.isRunning = FALSE, !.animationId = 0],
     queue |-> IF v.animationId # 0 THEN CancelAnimationFrame(q, v.animationId) ELSE q]

\* The body of animate() past its isRunning guard, for visualizer record v
\* on host queue q: the next frame is requested first, then time advances,
\* the extractor is read, updateVisuals / updateLights / updateCamera run,
\* the beat envelope decays and the scene is rendered.  An error ends the
\* body where it is raised; what was written before stays written.
AnimateBody(v, q, fdIn, tdIn, roll, pitch) ==
    /\ rafCount < MaxRaf
    /\ rafCount' = rafCount + 1
    /\ rafQueue' = RequestAnimationFrame(q, rafCount + 1, "v3d", 0)
    /\ strayBody' = (strayBody \/ v.stopped)
    /\ paletteLog' = paletteLog
    /\ IF ~v.audioAnalyzer
       THEN /\ UNCHANGED <<extractorState, visualObjects, sceneObjects, gpuLive,
                           geomCount, targetRotation>>
            /\ v3d' = [v EXCEPT !.animationId = rafCount + 1,
                                !.frames = @ + 1,
                                !.disposeRun = 0,
                                !.beatDecays = DecayBeat(@),
                                !.renders = IF v.renderer THEN @ + 1 ELSE @]
            /\ outcome' = IF v.renderer
                          THEN Observed("animate", FALSE, "rendered", "none", 0, FALSE, "v3d")
                          ELSE Observed("animate", TRUE, "none", "null-renderer",
                                        0, FALSE, "v3d")
       ELSE /\ ExtractForFrame("v3d", fdIn, tdIn)
            /\ IF ExtractThrows
               THEN /\ UNCHANGED <<visualObjects, sceneObjects, gpuLive, geomCount,
                                   targetRotation>>
                    /\ v3d' = [v EXCEPT !.animationId = rafCount + 1, !.frames = @ + 1,
                                        !.disposeRun = 0]
                    /\ outcome' = Observed("animate", TRUE, "none", "null-buffer",
                                           0, FALSE, "v3d")
               ELSE LET beat == currentAnalysis'.beat
                        switch == beat /\ roll
                        g == IF switch
                             THEN switchGeometry(geomCount + 1, visualObjects, sceneObjects,
                                                 gpuLive, v.geometryType, v.scene)
                             ELSE [visualObjects |-> visualObjects,
                                   sceneObjects |-> sceneObjects, gpuLive |-> gpuLive,
                                   geometryType |-> v.geometryType, threw |-> FALSE]
                        kicked == IF beat THEN 0 ELSE v.beatDecays
                        done == ~g.threw /\ v.camera /\ v.renderer
                    IN  /\ visualObjects' = g.visualObjects
                        /\ sceneObjects' = g.sceneObjects
                        /\ gpuLive' = g.gpuLive
                        /\ geomCount' = IF switch THEN geomCount + 1 ELSE geomCount
                        /\ targetRotation' =
                               IF g.threw THEN targetRotation
                               ELSE updateCameraTarget(targetRotation, autoRotate,
                                                       currentAnalysis'.energy, pitch)
                        /\ v3d' = [v EXCEPT
                               !.animationId = rafCount + 1,
                               !.frames = @ + 1,
                               !.disposeRun = 0,
                               !.geometryType = g.geometryType,
                               !.materialPalette = IF switch THEN v.colorPalette ELSE @,
                               !.slotRule = IF switch THEN "layout" ELSE @,
                               !.beatDecays = IF done THEN DecayBeat(kicked) ELSE kicked,
                               !.renders = IF done THEN @ + 1 ELSE @]
                        /\ outcome' =
                               IF done
                               THEN Observed("animate", FALSE, "rendered", "none",
                                             0, FALSE, "v3d")
                               ELSE Observed("animate", TRUE, "none",
                                             IF g.threw THEN "null-scene" ELSE "null-camera",
                                             0, FALSE, "v3d")

\* Visualizer3D.start() without its isRunning guard
Start3DUnguarded(fdIn, tdIn, roll, pitch) ==
    /\ UNCHANGED <<v2d, loops2D, autoRotate, isMouseDown, mouseX, mouseY, timers,
                   lastGestureEnd, resumeLog, now, ai, app>>
    /\ AnimateBody([v3d EXCEPT !.isRunning = TRUE, !.stopped = FALSE],
                   rafQueue, fdIn, tdIn, roll, pitch)

\* Visualizer3D.start(): `if (this.isRunning) return; this.isRunning = true;
\* this.animate()`.
Start3D(fdIn, tdIn, roll, pitch) ==
    /\ UNCHANGED <<v2d, loops2D, autoRotate, isMouseDown, mouseX, mouseY, timers,
                   lastGestureEnd, resumeLog, now, ai, app>>
    /\ IF v3d.isRunning
       THEN /\ v3d' = [v3d EXCEPT !.disposeRun = 0]
            /\ outcome' = Observed("start3d", FALSE, "none", "none", 0, FALSE, "app")
            /\ UNCHANGED <<visualObjects, sceneObjects, gpuLive, geomCount,
                           rafQueue, rafCount, strayBody, paletteLog, targetRotation, extractorState>>
       ELSE AnimateBody([v3d EXCEPT !.isRunning = TRUE, !.stopped = FALSE],
                        rafQueue, fdIn, tdIn, roll, pitch)

\* Visualizer3D.stop()
Stop3D ==
    LET s == stop3D(v3d, rafQueue)
    IN  /\ v3d' = [s.v EXCEPT !.stopped = TRUE, !.disposeRun = 0]
        /\ rafQueue' = s.queue
        /\ outcome' = Observed("stop3d", FALSE, IF v3d.isRunning THEN "stopped" ELSE "idle",
                               "none", 0, FALSE, "app")
        /\ UNCHANGED <<v2d, loops2D, visualObjects, sceneObjects, gpuLive, geomCount,
                       rafCount, strayBody, paletteLog, cameraVars, extractorState, now, ai, app>>

\* The host runs a frame callback of the Scene Visualizer: animate().
Frame3D(cb, fdIn, tdIn, roll, pitch) ==
    /\ cb \in Pending("v3d")
    /\ UNCHANGED <<v2d, loops2D, autoRotate, isMouseDown, mouseX, mouseY, timers,
                   lastGestureEnd, resumeLog, now, ai, app>>
    /\ IF ~v3d.isRunning
       THEN /\ rafQueue' = rafQueue \ {cb}
            /\ outcome' = Observed("animate", FALSE, "idle", "none", 0, FALSE, "v3d")
            /\ UNCHANGED <<v3d, visualObjects, sceneObjects, gpuLive, geomCount,
                           rafCount, strayBody, paletteLog, targetRotation, extractorState>>
       ELSE AnimateBody(v3d, rafQueue \ {cb}, fdIn, tdIn, roll, pitch)

\* Visualizer3D.setAudioAnalyzer
SetAudioAnalyzer3D ==
    /\ v3d' = [v3d EXCEPT !.audioAnalyzer = TRUE, !.disposeRun = 0]
    /\ outcome' = Observed("setAudioAnalyzer3d", FALSE, "none", "none", 0, FALSE, "app")
    /\ UNCHANGED <<v2d, loops2D, visualObjects, sceneObjects, gpuLive, geomCount,
                   rafQueue, rafCount, strayBody, paletteLog, cameraVars, extractorState, now, ai, app>>

\* Visualizer3D.updateColorPalette(mood, energy): the palette is replaced
\* and the material colour of every object of the collection is set from
\* it.  An error raised by generateMoodPalette ends the call before either.
UpdateColorPalette3D(mood, energy) ==
    LET r == generateMoodPalette(mood, energy)
    IN  /\ v3d' = IF r.threw
                  THEN [v3d EXCEPT !.disposeRun = 0]
                  ELSE [v3d EXCEPT !.disposeRun = 0,
                                   !.colorPalette = r.palette,
                                   !.materialPalette =
                                       IF visualObjects = <<>> THEN @ ELSE r.palette,
                                   !.slotRule =
                                       IF visualObjects = <<>> THEN @ ELSE "index"]
        /\ outcome' = Observed("updateColorPalette3d", r.threw, "none",
                               IF r.threw THEN "not-a-function" ELSE "none",
                               0, FALSE, "app")
        /\ UNCHANGED <<v2d, loops2D, visualObjects, sceneObjects, gpuLive, geomCount,
                       rafQueue, rafCount, strayBody, paletteLog, cameraVars,
                       extractorState, now, ai, app>>

\* A direct call ColorUtils.generateMoodPalette(mood, energy), as made when a
\* track is analysed: nothing but its result is produced.
GenerateMoodPalette(mood, energy) ==
    /\ \/ Cardinality(paletteLog) < MaxPaletteCalls
       \/ \E c \in paletteLog : c.mood = mood /\ c.energy = energy
    /\ paletteLog' = paletteLog \cup
           {[mood |-> mood, energy |-> energy,
             result |-> generateMoodPalette(mood, energy)]}
    /\ outcome' = Observed("generateMoodPalette", generateMoodPalette(mood, energy).threw,
                           IF \E c \in paletteLog : c.mood = mood /\ c.energy = energy
                           THEN "repeat" ELSE "first",
                           "none", 0, FALSE, "app")
    /\ UNCHANGED <<v2d, loops2D, v3d, visualObjects, sceneObjects, gpuLive, geomCount,
                   rafQueue, rafCount, strayBody, cameraVars, extractorState, now, ai, app>>

\* Visualizer3D.dispose(): stop(), clearScene(), renderer.dispose() and the
\* canvas is taken out of its container, then scene, camera and renderer are
\* set to null.  An error raised by clearScene ends the call there.
\* disposeRun counts the dispose() calls made in a row (2: two or more).
Dispose3D ==
    LET s == stop3D(v3d, rafQueue)
        c == clearScene(visualObjects, sceneObjects, gpuLive, v3d.scene)
        called == [s.v EXCEPT !.stopped = TRUE,
                              !.disposed = TRUE,
                              !.rendersAtDispose = IF v3d.disposed THEN @ ELSE v3d.renders,
                              !.disposeRun = IF @ >= 2 THEN 2 ELSE @ + 1]
    IN  /\ rafQueue' = s.queue
        /\ visualObjects' = c.visualObjects
        /\ sceneObjects' = c.sceneObjects
        /\ gpuLive' = c.gpuLive
        /\ v3d' = IF c.threw
                  THEN called
                  ELSE [called EXCEPT !.scene = FALSE, !.camera = FALSE,
                                      !.renderer = FALSE,
                                      !.canvasAttached = IF v3d.renderer THEN FALSE ELSE @]
        /\ outcome' = Observed("dispose3d", c.threw, "none",
                               IF c.threw THEN "null-scene" ELSE "none",
                               0, v3d.disposed, "app")
        /\ UNCHANGED <<v2d, loops2D, geomCount, rafCount, strayBody, paletteLog, cameraVars,
                       extractorState, now, ai, app>>

\* Visualizer3D.handleResize() for a container of width w: the aspect of the
\* camera, then the size of the renderer.  With this.camera null the first
\* assignment raises a TypeError; with this.renderer null setSize does.
handleResize(v, w) ==
    IF ~v.camera THEN [threw |-> TRUE, v |-> v]
    ELSE IF ~v.renderer THEN [threw |-> TRUE, v |-> [v EXCEPT !.width = w]]
    ELSE [threw |-> FALSE, v |-> [v EXCEPT !.width = w]]

\* The host notifies the window's resize listeners.  Each constructor
\* registered one: `this.resize.bind(this)` of the Raster Visualizer and an
\* arrow function calling handleResize() of the Scene Visualizer.
\* Visualizer2D.dispose() hands removeEventListener a second bound function,
\* which is no registered listener, and Visualizer3D.dispose() removes none:
\* both listeners stay registered for the life of the page.
WindowResize(w) ==
    LET r == handleResize(v3d, w)
    IN  /\ v2d' = IF v2d.resizeListener THEN [v2d EXCEPT !.width = w] ELSE v2d
        /\ v3d' = IF v3d.resizeListener THEN [r.v EXCEPT !.disposeRun = 0] ELSE v3d
        /\ outcome' = Observed("resize", v3d.resizeListener /\ r.threw, "none",
                               IF v3d.resizeListener /\ r.threw
                               THEN "null-camera" ELSE "none",
                               w, v3d.disposed, "host")
        /\ UNCHANGED <<loops2D, visualObjects, sceneObjects, gpuLive, geomCount,
                       rafQueue, rafCount, strayBody, paletteLog, cameraVars,
                       extractorState, now, ai, app>>

\* The two visualizers as constructed: the Scene Visualizer has built its
\* scene, camera and renderer, appended the canvas and created the bars.
Constructed3D ==
    [isRunning |-> FALSE, animationId |-> 0, audioAnalyzer |-> FALSE,
     frames |-> 0, geometryType |-> "bars", beatDecays |-> 0 - 1,
     scene |-> TRUE, camera |-> TRUE, renderer |-> TRUE,
     canvasAttached |-> TRUE, renders |-> 0, stopped |-> FALSE,
     disposed |-> FALSE, rendersAtDispose |-> 0, disposeRun |-> 0,
     resizeListener |-> TRUE, width |-> 1, slotRule |-> "layout",
     colorPalette |-> generateMoodPalette("neutral", defaultEnergy).palette,
     materialPalette |-> generateMoodPalette("neutral", defaultEnergy).palette]

\* The scene holding the objects of variant g, built by construction gen.
SceneWith(g, gen) ==
    /\ visualObjects = <<Batch(g, gen, ObjectCount(g))>>
    /\ sceneObjects = {Batch(g, gen, ObjectCount(g))}
    /\ gpuLive = {Batch(g, gen, ObjectCount(g))}
    /\ geomCount = gen

HostInit ==
    /\ rafQueue = {}
    /\ rafCount = 0
    /\ strayBody = FALSE
    /\ paletteLog = {}
    /\ loops2D = <<>>
    /\ v3d = Constructed3D
    /\ SceneWith("bars", 1)

Constructed2D(seed) ==
    [ctx |-> TRUE, isRunning |-> FALSE, animationLoop |-> 0, audioAnalyzer |-> FALSE,
     currentMode |-> 0, modeTransition |-> 0, beatDecays |-> 0 - 1, frames |-> 0,
     stopped |-> FALSE,
     colorPalette |-> generateMoodPalette("neutral", defaultEnergy).palette,
     currentColorIndex |-> 0, colorTransition |-> 0, resizeListener |-> TRUE,
     width |-> 1, particles |-> initializeParticles(seed)]

LoopInit ==
    /\ HostInit
    /\ v2d = Constructed2D(0)

CameraInit ==
    /\ autoRotate = TRUE
    /\ targetRotation = [x |-> 0, y |-> 0, yEnergy |-> 0]
    /\ isMouseDown = FALSE
    /\ mouseX = 0
    /\ mouseY = 0
    /\ timers = <<>>
    /\ lastGestureEnd = 0
    /\ resumeLog = [at |-> 0, during |-> FALSE, sinceEnd |-> 0]

\* ------------------------------------------------------------- DOMUtils
\* A page element as DOMUtils sees it: whether its class list holds
\* 'hidden', the 300 ms callbacks of hide() that are pending, the callbacks
\* of showToast that are pending, and which of show/hide was called last.
NewElement(hidden) ==
    [hidden |-> hidden, hideTimers |-> 0, toastTimers |-> 0, lastCall |-> "none"]

\* DOMUtils.show(element): 'hidden' is removed at once.  No timer is
\* cleared: setTimeout's handle is never kept.
show(e) == [e EXCEPT !.hidden = FALSE, !.lastCall = "show"]

\* DOMUtils.hide(element): the fade-out class is added and a 300 ms timer
\* is set whose callback adds 'hidden'.
hide(e) == [e EXCEPT !.hideTimers = @ + 1, !.lastCall = "hide"]

\* the callback of hide's timer
hideCallback(e) == [e EXCEPT !.hidden = TRUE, !.hideTimers = @ - 1]

\* DOMUtils.showToast(message, type, duration): show(toast) and a timer of
\* `duration` ms whose callback calls hide(toast).
showToast(e) == [show(e) EXCEPT !.toastTimers = @ + 1]

\* the callback of showToast's timer
toastCallback(e) == [hide(e) EXCEPT !.toastTimers = @ - 1]

\* ----------------------------------------------------------- MusicVizApp
\* The fields of the application object the handlers read and write, the
\* visualizer container and the toast element, the mood analyses started by
\* loadAudio and not settled yet (in the order they were started), the
\* palettes the settled ones installed, and what the last loadAudio and
\* handleUrlLoad calls did.
NewApp ==
    [isPlaying |-> FALSE, is3DMode |-> FALSE, currentTrack |-> 0, loads |-> 0,
     op |-> "none", lastLoad |-> "none", controlsShown |-> FALSE,
     container |-> NewElement(TRUE), toast |-> NewElement(TRUE),
     analyses |-> <<>>, applied |-> <<>>,
     urlLoad |-> [url |-> [empty |-> TRUE, matches |-> {}, idOk |-> FALSE],
                 fetched |-> "none",
                 handled |-> [rejected |-> FALSE, isNull |-> TRUE, service |-> "",
                              streamUrl |-> "", toast |-> FALSE],
                 loadAudioCalls |-> 0, trackBefore |-> 0]]

\* Visualizer2D.start() on visualizer record v, loop table `loops`, host
\* queue q and request counter `count`.
start2D(v, loops, q, count) ==
    IF v.isRunning
    THEN [v |-> v, loops |-> loops, queue |-> q, count |-> count]
    ELSE [v |-> [v EXCEPT !.isRunning = TRUE, !.animationLoop = Len(loops) + 1,
                          !.stopped = FALSE],
          loops |-> Append(loops, [isRunning |-> TRUE, animationId |-> count + 1]),
          queue |-> RequestAnimationFrame(q, count + 1, "v2d", Len(loops) + 1),
          count |-> count + 1]

\* Visualizer2D.stop()
stop2D(v, loops, q) ==
    LET r == IF v.animationLoop # 0
             THEN LoopStop(loops, q, v.animationLoop)
             ELSE [loops |-> loops, queue |-> q]
    IN  [v |-> [v EXCEPT !.isRunning = FALSE, !.stopped = TRUE],
         loops |-> r.loops, queue |-> r.queue]

\* startVisualizers() for mode is3D: start() of the visualizer of the mode,
\* then stop() of the other one.  Visualizer3D.start() runs the first
\* animate() itself; an error raised there leaves startVisualizers before
\* visualizer2D.stop() is called.  `outcome` tells whether it raised.
startVisualizers(is3D, fdIn, tdIn, roll, pitch) ==
    LET s2 == stop2D(v2d, loops2D, rafQueue)
    IN  /\ UNCHANGED <<autoRotate, isMouseDown, mouseX, mouseY, timers,
                       lastGestureEnd, resumeLog, now, ai>>
        /\ IF is3D /\ v3d.isRunning
           THEN /\ v2d' = s2.v
                /\ loops2D' = s2.loops
                /\ rafQueue' = s2.queue
                /\ v3d' = [v3d EXCEPT !.disposeRun = 0]
                /\ outcome' = Observed("startVisualizers", FALSE, "none", "none",
                                       0, FALSE, "app")
                /\ UNCHANGED <<visualObjects, sceneObjects, gpuLive, geomCount, rafCount,
                               strayBody, paletteLog, targetRotation, extractorState>>
           ELSE IF is3D
           THEN /\ \E q \in {rafQueue, s2.queue} :
                      /\ AnimateBody([v3d EXCEPT !.isRunning = TRUE, !.stopped = FALSE],
                                     q, fdIn, tdIn, roll, pitch)
                      /\ q = IF outcome'.threw THEN rafQueue ELSE s2.queue
                /\ v2d' = IF outcome'.threw THEN v2d ELSE s2.v
                /\ loops2D' = IF outcome'.threw THEN loops2D ELSE s2.loops
           ELSE LET a == start2D(v2d, loops2D, rafQueue, rafCount)
                    s3 == stop3D(v3d, a.queue)
                IN  /\ a.count <= MaxRaf
                    /\ v2d' = a.v
                    /\ loops2D' = a.loops
                    /\ rafCount' = a.count
                    /\ v3d' = [s3.v EXCEPT !.stopped = TRUE, !.disposeRun = 0]
                    /\ rafQueue' = s3.queue
                    /\ outcome' = Observed("startVisualizers", FALSE, "none", "none",
                                           0, FALSE, "app")
                    /\ UNCHANGED <<visualObjects, sceneObjects, gpuLive, geomCount,
                                   strayBody, paletteLog, targetRotation, extractorState>>

\* pauseVisualizers(): stop() of both visualizers
pauseVisualizers ==
    LET s2 == stop2D(v2d, loops2D, rafQueue)
        s3 == stop3D(v3d, s2.queue)
    IN  /\ v2d' = s2.v
        /\ loops2D' = s2.loops
        /\ v3d' = [s3.v EXCEPT !.stopped = TRUE, !.disposeRun = 0]
        /\ rafQueue' = s3.queue
        /\ outcome' = Observed("pauseVisualizers", FALSE,
                               IF v2d.isRunning \/ v3d.isRunning THEN "stopped" ELSE "idle",
                               "none", 0, FALSE, "app")
        /\ UNCHANGED <<visualObjects, sceneObjects, gpuLive, geomCount, rafCount,
                       strayBody, paletteLog, cameraVars, extractorState, now, ai>>

\* The inputs of the frames that run while the application is followed:
\* the analyser reports silence, and Math.random() draws no switch.
FrameInputs == {[fd |-> ZeroArray, roll |-> FALSE]}

\* handleAudioPlay(), the listener of the audio element's 'play' event, and
\* with the same statements the part of playAudio() after
\* `await this.audioElement.play()`: isPlaying = true, then
\* startVisualizers().  An element plays only once it has a source.
HandleAudioPlay ==
    /\ app.currentTrack # 0
    /\ app' = [app EXCEPT !.isPlaying = TRUE, !.op = "play"]
    /\ \E f \in FrameInputs :
          startVisualizers(app.is3DMode, f.fd, SilentWave, f.roll, EarlyPitch)

\* a pause handler that leaves the visualizers as they are
HandleAudioPauseKeeping ==
    /\ app' = [app EXCEPT !.isPlaying = FALSE, !.op = "pause"]
    /\ outcome' = Observed("pauseVisualizers", FALSE, "idle", "none", 0, FALSE, "app")
    /\ UNCHANGED <<loopVars, cameraVars, extractorState, now, ai>>

\* handleAudioPause(), and with the same statements handleAudioEnded(),
\* handleAudioError() and pauseAudio(): isPlaying = false, then
\* pauseVisualizers().
HandleAudioPause ==
    /\ app' = [app EXCEPT !.isPlaying = FALSE, !.op = "pause"]
    /\ pauseVisualizers

\* toggleVisualizerMode(): is3DMode is inverted and, while playing,
\* startVisualizers() switches the visualizers.
ToggleVisualizerMode ==
    /\ app' = [app EXCEPT !.is3DMode = ~@, !.op = "toggleVisualizerMode"]
    /\ IF app.isPlaying
       THEN \E f \in FrameInputs :
               startVisualizers(~app.is3DMode, f.fd, SilentWave,
                                f.roll, EarlyPitch)
       ELSE /\ outcome' = Observed("toggleVisualizerMode", FALSE, "none", "none",
                                   0, FALSE, "app")
            /\ UNCHANGED <<loopVars, cameraVars, extractorState, now, ai>>

\* enterVisualizer(): refused with a toast while nothing plays; otherwise
\* the container is shown and startVisualizers() is called.
EnterVisualizer ==
    IF ~app.isPlaying
    THEN /\ app.toast.toastTimers < MaxTimers
         /\ app' = [app EXCEPT !.op = "enterVisualizer", !.toast = showToast(@)]
         /\ outcome' = Observed("enterVisualizer", FALSE, "refused", "none",
                                0, FALSE, "app")
         /\ UNCHANGED <<loopVars, cameraVars, extractorState, now, ai>>
    ELSE /\ app' = [app EXCEPT !.op = "enterVisualizer", !.container = show(@)]
         /\ \E f \in FrameInputs :
               startVisualizers(app.is3DMode, f.fd, SilentWave,
                                f.roll, EarlyPitch)

\* exitVisualizer(): the container is hidden (after hide's delay) and
\* pauseVisualizers() is called; isPlaying is left as it is.
ExitVisualizer ==
    /\ app.container.hideTimers < MaxTimers
    /\ app' = [app EXCEPT !.op = "exitVisualizer", !.container = hide(@)]
    /\ pauseVisualizers

\* handleKeyboard(e): Space is togglePlayPause() (pauseAudio() while
\* playing), KeyV and Escape act only while the container is not hidden.
HandleKeyboard(code) ==
    CASE code = "Space" -> app.isPlaying /\ HandleAudioPause
      [] code = "KeyV" -> ~app.container.hidden /\ ToggleVisualizerMode
      [] code = "Escape" -> ~app.container.hidden /\ ExitVisualizer

\* handleFullscreenChange() on leaving fullscreen
HandleFullscreenChange == ~app.container.hidden /\ ExitVisualizer

\* The host runs the 300 ms callback of a hide() of the container.
ContainerHideTimer ==
    /\ app.container.hideTimers > 0
    /\ app' = [app EXCEPT !.container = hideCallback(@)]
    /\ outcome' = Observed("hideTimer", FALSE, "none", "none", 0, FALSE, "host")
    /\ UNCHANGED <<loopVars, cameraVars, extractorState, now, ai>>

\* The host runs the callback of a showToast timer: hide(toast).
ToastTimer ==
    /\ app.toast.toastTimers > 0
    /\ app.toast.hideTimers < MaxTimers
    /\ app' = [app EXCEPT !.toast = toastCallback(@)]
    /\ outcome' = Observed("toastTimer", FALSE, "none", "none", 0, FALSE, "host")
    /\ UNCHANGED <<loopVars, cameraVars, extractorState, now, ai>>

\* The host runs the 300 ms callback of a hide() of the toast.
ToastHideTimer ==
    /\ app.toast.hideTimers > 0
    /\ app' = [app EXCEPT !.toast = hideCallback(@)]
    /\ outcome' = Observed("hideTimer", FALSE, "none", "none", 0, FALSE, "host")
    /\ UNCHANGED <<loopVars, cameraVars, extractorState, now, ai>>

\* What loadAudio(url, metadata) leaves in the application object once
\* initialize() has settled: currentTrack is the new track, the audio
\* controls are shown and, unless the title is 'Unknown', performAIAnalysis
\* is started and not awaited.  The value initialize() resolved with is not
\* looked at, and initialize() never rejects, so the catch block that would
\* raise 'Failed to load audio file' is not entered.  `remote` tells whether
\* the analysis awaits an answer of the remote service.
loadAudio(a, metadata) ==
    LET track == a.loads + 1
        remote == ai.apiKey /\ ~metadata.isNull /\ ~CacheHas(ai.moodCache, metadata.key)
    IN  [a EXCEPT !.currentTrack = track,
                  !.loads = track,
                  !.op = "loadAudio",
                  !.lastLoad = "resolved",
                  !.controlsShown = TRUE,
                  !.analyses = IF metadata.title # "Unknown"
                               THEN Append(@, [track |-> track, metadata |-> metadata,
                                               remote |-> remote])
                               ELSE @]

\* loadAudio(url, metadata) on the application's audio element
LoadAudio(metadata, ctxOk) ==
    /\ app.loads < MaxTracks
    /\ InitializeCall(1, ctxOk, FALSE)
    /\ app' = loadAudio(app, metadata)

\* the remote service was not asked, or its request was rejected
NoAnswer == [kind |-> "reject", mood |-> "", energy |-> <<>>]

\* The analyses that may settle next: those that wait for no remote answer
\* settle in the order they were started and before any timer or network
\* callback runs; those that wait for one settle in any order.
Settling ==
    {i \in DOMAIN app.analyses :
        IF app.analyses[i].remote
        THEN \A j \in DOMAIN app.analyses : app.analyses[j].remote
        ELSE \A j \in 1..(i - 1) : app.analyses[j].remote}

RemoveAt(q, i) == SubSeq(q, 1, i - 1) \o SubSeq(q, i + 1, Len(q))

\* performAIAnalysis(metadata) from the point where analyzeTrack settles,
\* for the i-th pending analysis and the remote answer `response`: both
\* visualizers are given the palette of the analysed mood and energy and a
\* toast is shown.  A rejection, or an error raised by updateColorPalette,
\* is caught and logged.
PerformAIAnalysis(i, response) ==
    /\ i \in Settling
    /\ app.toast.toastTimers < MaxTimers
    /\ \E p \in {app.analyses[i]} :
       \E a \in {analyzeTrack(IF p.remote
                              THEN [ai EXCEPT !.moodCache =
                                                 {c \in @ : c.key # p.metadata.key}]
                              ELSE ai,
                              p.metadata, response)} :
       \E r \in {generateMoodPalette(a.resolved.mood,
                                     Reduce([n |-> a.resolved.energy.n,
                                             d |-> a.resolved.energy.d]))} :
       \E ok \in {~a.resolved.rejected /\ ~r.threw} :
           /\ ai' = [a EXCEPT !.moodCache =
                                  IF p.remote /\ ~CacheHas(@, p.metadata.key)
                                  THEN ai.moodCache ELSE @]
           /\ v2d' = IF ok THEN [v2d EXCEPT !.colorPalette = r.palette] ELSE v2d
           /\ v3d' = IF ok
                     THEN [v3d EXCEPT !.disposeRun = 0,
                                      !.colorPalette = r.palette,
                                      !.materialPalette =
                                          IF visualObjects = <<>> THEN @ ELSE r.palette,
                                      !.slotRule =
                                          IF visualObjects = <<>> THEN @ ELSE "index"]
                     ELSE v3d
           /\ app' = [app EXCEPT
                         !.op = "performAIAnalysis",
                         !.analyses = RemoveAt(@, i),
                         !.applied = IF ok
                                     THEN Append(@, [track |-> p.track,
                                                     palette |-> r.palette])
                                     ELSE @,
                         !.toast = IF ok THEN showToast(@) ELSE @]
           /\ outcome' = Observed("performAIAnalysis", FALSE,
                                  IF ok THEN "applied" ELSE "caught", "none",
                                  p.track, FALSE, "app")
    /\ UNCHANGED <<loops2D, visualObjects, sceneObjects, gpuLive, geomCount, rafQueue,
                   rafCount, strayBody, paletteLog, cameraVars, extractorState, now>>

\* ----------------------------------------------------- StreamingServices
\* A URL as the service patterns and the id extractors see it: the services
\* whose pattern matches it and whether the extractor of the detected
\* service finds an id in it.
services == <<"soundcloud", "youtube", "spotify", "appleMusic">>

\* detectService(url): the first service, in the order of this.services,
\* whose pattern matches; 0 for none.
detectService(url) ==
    IF \E i \in DOMAIN services : services[i] \in url.matches
    THEN CHOOSE i \in DOMAIN services :
            /\ services[i] \in url.matches
            /\ \A j \in 1..(i - 1) : services[j] \notin url.matches
    ELSE 0

\* isSupportedUrl(url)
isSupportedUrl(url) == \E i \in DOMAIN services : services[i] \in url.matches

\* What a handler hands back: an error, or a record whose streamUrl is
\* null ("" here).
ServiceError == [threw |-> TRUE, service |-> "", streamUrl |-> ""]
ServiceInfo(name) == [threw |-> FALSE, service |-> name, streamUrl |-> ""]

\* handleSoundCloud / handleYouTube: no id raises; the oEmbed fetch may be
\* rejected, answer with a status that is not ok, or carry no JSON; every
\* error is raised again as 'Unable to load ...'.
handleOEmbed(name, url, fetched) ==
    IF ~url.idOk \/ fetched # "ok" THEN ServiceError ELSE ServiceInfo(name)

\* a Spotify handler that answers with the demo stream
handleSpotifyStreaming(url) ==
    IF ~url.idOk THEN ServiceError
    ELSE [threw |-> FALSE, service |-> "spotify", streamUrl |-> "demo"]

\* handleSpotify: no id raises; otherwise a placeholder record
handleSpotify(url) ==
    IF ~url.idOk THEN ServiceError ELSE ServiceInfo("spotify")

\* handleAppleMusic: a placeholder record
handleAppleMusic(url) == ServiceInfo("applemusic")

\* handleUrl(url) with the oEmbed answer `fetched`: what the promise
\* resolves with (isNull: null) and whether the error toast was shown.  The
\* catch block turns every error into the result null.
handleUrl(url, fetched) ==
    LET s == detectService(url)
        r == CASE s = 0 -> ServiceError
               [] s = 1 -> handleOEmbed("soundcloud", url, fetched)
               [] s = 2 -> handleOEmbed("youtube", url, fetched)
               [] s = 3 -> handleSpotify(url)
               [] s = 4 -> handleAppleMusic(url)
    IN  [rejected |-> FALSE, isNull |-> r.threw, service |-> r.service,
         streamUrl |-> r.streamUrl, toast |-> r.threw]

NoUrl == [empty |-> TRUE, matches |-> {}, idOk |-> FALSE]

\* StreamingServices.handleUrl(url) called on its own
HandleUrl(url, fetched) ==
    LET h == handleUrl(url, fetched)
    IN  /\ ~h.toast \/ app.toast.toastTimers < MaxTimers
        /\ app' = [app EXCEPT
                      !.op = "handleUrl",
                      !.urlLoad = [url |-> url, fetched |-> fetched, handled |-> h,
                                   loadAudioCalls |-> 0,
                                   trackBefore |-> app.currentTrack],
                      !.toast = IF h.toast THEN showToast(@) ELSE @]
        /\ outcome' = Observed("handleUrl", h.rejected,
                               IF h.isNull THEN "null" ELSE "record", "none",
                               0, FALSE, "app")
        /\ UNCHANGED <<loopVars, cameraVars, extractorState, now, ai>>

NotHandled ==
    [rejected |-> FALSE, isNull |-> TRUE, service |-> "", streamUrl |-> "",
     toast |-> FALSE]

StreamMetadata(title) ==
    [isNull |-> FALSE, title |-> title, key |-> "audio stream_unknown artist",
     genre |-> "", words |-> {}]

\* handleUrlLoad() with `url` in the input field: nothing for an empty
\* field; a URL of a streaming service is handed to handleUrl and loaded
\* only if the result carries a stream URL, otherwise a warning is shown;
\* any other URL is loaded as a direct audio stream.
HandleUrlLoad(url, fetched, ctxOk) ==
    LET h == handleUrl(url, fetched)
        toasts == IF h.toast THEN 2 ELSE 1
    IN  IF url.empty
        THEN /\ app' = [app EXCEPT !.op = "handleUrlLoad",
                                   !.urlLoad = [url |-> url, fetched |-> "none",
                                                handled |-> NotHandled,
                                                loadAudioCalls |-> 0,
                                                trackBefore |-> app.currentTrack]]
             /\ outcome' = Observed("handleUrlLoad", FALSE, "empty", "none",
                                    0, FALSE, "app")
             /\ UNCHANGED <<loopVars, cameraVars, extractorState, now, ai>>
        ELSE IF isSupportedUrl(url) /\ (h.isNull \/ h.streamUrl = "")
        THEN /\ app.toast.toastTimers + toasts <= MaxTimers
             /\ app' = [app EXCEPT
                           !.op = "handleUrlLoad",
                           !.urlLoad = [url |-> url, fetched |-> fetched,
                                        handled |-> h, loadAudioCalls |-> 0,
                                        trackBefore |-> app.currentTrack],
                           !.toast = IF h.toast THEN showToast(showToast(@))
                                     ELSE showToast(@)]
             /\ outcome' = Observed("handleUrlLoad", FALSE, "warning", "none",
                                    0, FALSE, "app")
             /\ UNCHANGED <<loopVars, cameraVars, extractorState, now, ai>>
        ELSE /\ app.loads < MaxTracks
             /\ app.toast.toastTimers < MaxTimers
             /\ InitializeCall(1, ctxOk, FALSE)
             /\ app' = [loadAudio(app, StreamMetadata(IF isSupportedUrl(url)
                                                      THEN h.service
                                                      ELSE "Audio Stream"))
                           EXCEPT !.op = "handleUrlLoad",
                                  !.urlLoad = [url |-> url,
                                               fetched |-> IF isSupportedUrl(url)
                                                           THEN fetched ELSE "none",
                                               handled |-> IF isSupportedUrl(url)
                                                           THEN h ELSE NotHandled,
                                               loadAudioCalls |-> 1,
                                               trackBefore |-> app.currentTrack],
                                  !.toast = showToast(@)]

\* ------------------------------------------------------------ initial state
AnalyzerInit ==
    /\ audioContext = 0
    /\ analyser = 0
    /\ source = NoSource
    /\ frequencyData = <<>>
    /\ timeData = <<>>
    /\ lastFrequencyData = NoSmooth
    /\ lastBeatTime = 0
    /\ energyHistory = <<>>
    /\ currentAnalysis = InitialAnalysis

PlatformInit ==
    /\ nodeCount = 0
    /\ edges = {}
    /\ closedCtx = {}
    /\ pendingInit = {}
    /\ ctxRequests = 0

GhostInit ==
    /\ outcome = NoOutcome
    /\ initCount = 0
    /\ cycles = 0
    /\ justDisposed = FALSE
    /\ beatLog = <<>>
    /\ everInitialized = FALSE
    /\ solo = [history |-> <<>>, lastBeatTime |-> 0, beat |-> FALSE]

\* ------------------------------------- the extractor and its audio platform
\* A media element may already be attached to a pipeline of another owner.
InitAudio ==
    /\ CameraInit
    /\ LoopInit
    /\ AnalyzerInit
    /\ PlatformInit
    /\ GhostInit
    /\ now = Epoch
    /\ ai = NewAIIntegration(FALSE)
    /\ app = NewApp
    /\ boundBy \in [Elements -> {"none", "other"}]

NextAudio ==
    \/ \E el \in Elements, ctxOk \in BOOLEAN, suspended \in BOOLEAN :
          Initialize(el, ctxOk, suspended)
    \/ \E p \in pendingInit, resumeOk \in BOOLEAN : InitializeResume(p, resumeOk)
    \/ Dispose
    \/ \E fd \in {ZeroArray, [i \in 1..NumBins |-> MaxLevel]} :
          Analyze("app", fd, SilentWave)
    \/ \E n \in 1..MaxBars : GetVisualizationData("app", n)

SpecAudio == InitAudio /\ [][NextAudio]_vars

\* ----------------------------------- beat detection with two frame clients
\* The state after one successful initialize(element 1).
InitializedAnalyzer ==
    /\ audioContext = 1
    /\ analyser = 1
    /\ source = [node |-> 2, el |-> 1]
    /\ frequencyData = ZeroArray
    /\ timeData = ZeroArray
    /\ lastFrequencyData = NoSmooth
    /\ currentAnalysis = InitialAnalysis
    /\ nodeCount = 2
    /\ edges = {<<2, 1>>, <<1, Dest>>}
    /\ closedCtx = {}
    /\ pendingInit = {}
    /\ ctxRequests = 1
    /\ boundBy = [e \in Elements |-> IF e = 1 THEN "self" ELSE "none"]
    /\ initCount = 1
    /\ everInitialized = TRUE
    /\ justDisposed = FALSE
    /\ outcome = Observed("initialize", FALSE, "true", "none", 1, FALSE, "app")

\* Buffers whose bins all hold the same level.
UniformBuffers == {[i \in 1..NumBins |-> l] : l \in Levels}

\* Energy histories left by earlier cycles of constant energy: empty, one
\* short of full, and full.
SteadyHistories ==
    {<<>>} \cup
    {[i \in 1..n |-> calculateEnergy(b)] :
        n \in {maxEnergyHistorySize - 1, maxEnergyHistorySize}, b \in UniformBuffers}

BeatSteps == {50, 200}

InitBeat ==
    /\ CameraInit
    /\ LoopInit
    /\ InitializedAnalyzer
    /\ now = Epoch
    /\ ai = NewAIIntegration(FALSE)
    /\ app = NewApp
    /\ lastBeatTime = 0
    /\ energyHistory \in SteadyHistories
    /\ solo = [history |-> energyHistory, lastBeatTime |-> 0, beat |-> FALSE]
    /\ cycles = 0
    /\ beatLog = <<>>

NextBeat ==
    \/ \E caller \in {"v2d", "v3d"}, fd \in UniformBuffers :
          Analyze(caller, fd, SilentWave)
    \/ \E d \in BeatSteps : Tick(d, MaxBeatTime)

SpecBeat == InitBeat /\ [][NextBeat]_vars

\* C2: any two analyze() cycles that both report beat = true are more than
\* beatMinInterval milliseconds apart (the clock never runs backwards).
C2_BeatsApart ==
    \A i, j \in DOMAIN beatLog :
        i < j => beatLog[j] - beatLog[i] > beatMinInterval

C2_Witness ==
    /\ Len(beatLog) >= 2
    /\ outcome.op = "analyze"
    /\ ~currentAnalysis.beat
    /\ AboveThreshold(energyHistory, currentAnalysis.energy)

\* C5: the beat flags the Raster Visualizer's frames observe are those it
\* would observe with the Scene Visualizer not running: `solo` is the
\* extractor driven by the Raster Visualizer's cycles alone, on the same
\* audio input at the same times.
C5_FramesIndependent ==
    (outcome.op = "analyze" /\ outcome.caller = "v2d")
    => currentAnalysis.beat = solo.beat

\* C11: a cycle on silent input (every bin 0, every sample 128) returns
\* volume = 0, energy = 0 and beat = false, whatever the energy history
\* holds and however long ago the last beat was.
C11_SilenceYieldsNothing ==
    (/\ outcome.op = "analyze"
     /\ outcome.result = "fresh"
     /\ frequencyData = ZeroArray
     /\ timeData = SilentWave)
    => (/\ currentAnalysis.volume = 0
        /\ currentAnalysis.energy = 0
        /\ ~currentAnalysis.beat)

\* a silent cycle on a non-silent history, the refractory interval long over
C11_Witness ==
    /\ outcome.op = "analyze"
    /\ outcome.result = "fresh"
    /\ frequencyData = ZeroArray
    /\ timeData = SilentWave
    /\ SeqSum(energyHistory) > 0
    /\ Len(energyHistory) = maxEnergyHistorySize
    /\ now - lastBeatTime > beatMinInterval

\* The time of the last reported beat (0 before the first one), and the
\* steps that are analyze() cycles on a live analyser.
LastReportedBeat == IF beatLog = <<>> THEN 0 ELSE beatLog[Len(beatLog)]
AnalyzeCycle == cycles' = cycles + 1 /\ outcome'.op = "analyze" /\ outcome'.result = "fresh"

\* C24: a cycle reports a beat exactly when its energy exceeds
\* mean + 0.35*sqrt(variance) of the energy history and at least 200 ms
\* have passed since the last reported beat, the 200 ms boundary included.
C24_BeatAtBoundaryIncluded ==
    [][AnalyzeCycle =>
          (currentAnalysis'.beat <=>
              /\ AboveThreshold(energyHistory', currentAnalysis'.energy)
              /\ now - LastReportedBeat >= beatMinInterval)]_vars

\* C29: the energy history holds at most 43 values, the most recent
\* energies in arrival order: each analyze() cycle appends its energy at
\* the end and, once 43 values are held, drops the oldest one.
C29_HistoryWindow ==
    /\ [](Len(energyHistory) <= maxEnergyHistorySize)
    /\ [][AnalyzeCycle =>
             energyHistory' =
                IF Len(energyHistory) < maxEnergyHistorySize
                THEN energyHistory \o <<currentAnalysis'.energy>>
                ELSE SubSeq(energyHistory, 2, Len(energyHistory))
                        \o <<currentAnalysis'.energy>>]_vars

\* C29 witness: two cycles on a history one short of full or full, so that
\* the oldest value has been evicted, the newest energy differing from the
\* oldest one kept.
C29_Witness ==
    /\ outcome.op = "analyze"
    /\ outcome.result = "fresh"
    /\ cycles >= 2
    /\ Len(energyHistory) = maxEnergyHistorySize
    /\ energyHistory[maxEnergyHistorySize] = currentAnalysis.energy
    /\ energyHistory[1] # currentAnalysis.energy

\* ------------------------------------------- band analysis on test spectra
\* Bins 0..10 at 255, every other bin at 200.
BassHeavy(n) == [i \in 1..n |-> IF i <= 11 THEN 255 ELSE 200]

\* Bins from k on at 255, the bins below at 200 (k = 0: every bin at 255).
Plateau(n, k) == [i \in 1..n |-> IF i > k THEN 255 ELSE 200]

\* Spectra of every length up to MaxBandBins, of the analyser's
\* frequencyBinCount (fftSize / 2) and of fftSize bins.
BandInputs ==
    {BassHeavy(n) : n \in 0..MaxBandBins}
    \cup {Plateau(n, n \div 2) : n \in 0..MaxBandBins}
    \cup {[i \in 1..n |-> 0] : n \in 1..MaxBandBins}
    \cup {BassHeavy(fftSize \div 2), BassHeavy(fftSize)}

\* An initialized analyzer whose buffer holds a test spectrum.
InitBands ==
    /\ CameraInit
    /\ LoopInit
    /\ audioContext = 1
    /\ analyser = 1
    /\ source = [node |-> 2, el |-> 1]
    /\ frequencyData \in BandInputs
    /\ timeData = SilentWave
    /\ lastFrequencyData = NoSmooth
    /\ currentAnalysis = InitialAnalysis
    /\ nodeCount = 2
    /\ edges = {<<2, 1>>, <<1, Dest>>}
    /\ closedCtx = {}
    /\ pendingInit = {}
    /\ ctxRequests = 1
    /\ boundBy = [e \in Elements |-> IF e = 1 THEN "self" ELSE "none"]
    /\ initCount = 1
    /\ everInitialized = TRUE
    /\ justDisposed = FALSE
    /\ outcome = Observed("initialize", FALSE, "true", "none", 1, FALSE, "app")
    /\ now = Epoch
    /\ ai = NewAIIntegration(FALSE)
    /\ app = NewApp
    /\ lastBeatTime = 0
    /\ energyHistory = <<>>
    /\ solo = [history |-> <<>>, lastBeatTime |-> 0, beat |-> FALSE]
    /\ cycles = 0
    /\ beatLog = <<>>

\* The spectral part of analyze(): dominantFrequency and bands are computed
\* from the buffer and stored in currentAnalysis.
MeasureSpectrum ==
    /\ analyser # 0
    /\ currentAnalysis' =
           [currentAnalysis EXCEPT
               !.dominantFrequency = getDominantFrequency(frequencyData),
               !.bands = analyzeFrequencyBands(frequencyData),
               !.spectrum = frequencyData]
    /\ outcome' = Observed("measure", FALSE, "fresh", "none", 0, FALSE, "app")
    /\ UNCHANGED <<audioContext, analyser, source, frequencyData, timeData,
                   lastFrequencyData, lastBeatTime, energyHistory, platformVars, now, ai, app,
                   initCount, cycles, justDisposed, beatLog, solo, everInitialized,
                   hostVars>>

NextBands == MeasureSpectrum

SpecBands == InitBands /\ [][NextBands]_vars

Covering(ranges, i) == {b \in BandNames : ranges[b][1] <= i /\ i < ranges[b][2]}

\* the ranges are contiguous in band order from 0 to n, and every bin index
\* lies in exactly one of them
IsPartition(ranges, n) ==
    /\ ranges[BandOrder[1]][1] = 0
    /\ ranges[BandOrder[Len(BandOrder)]][2] = n
    /\ \A k \in 1..(Len(BandOrder) - 1) :
          ranges[BandOrder[k]][2] = ranges[BandOrder[k + 1]][1]
    /\ \A b \in BandNames : ranges[b][1] <= ranges[b][2]
    /\ \A i \in 0..(n - 1) : Cardinality(Covering(ranges, i)) = 1

\* C16: for a spectrum of n bins the five ranges [floor(start*n),
\* floor(end*n)) of both analyzeFrequencyBands functions are contiguous,
\* pairwise disjoint and cover every bin 0..n-1 exactly once; the bin counts
\* of the reported bands add up to n.
C16_BandsPartitionBins ==
    outcome.op = "measure" =>
        LET n == Len(frequencyData)
        IN  /\ IsPartition([b \in BandNames |-> <<StartBin(b, n), EndBin(b, n)>>], n)
            /\ IsPartition(UtilsBandRanges(n), n)
            /\ SeqSum([k \in 1..Len(BandOrder) |->
                          currentAnalysis.bands[BandOrder[k]].count]) = n

\* a length at which 0.1 * n, 0.25 * n and 0.75 * n are all fractional
C16_Witness ==
    /\ outcome.op = "measure"
    /\ Len(frequencyData) = 13
    /\ currentAnalysis.bands["bass"].count = 1
    /\ currentAnalysis.bands["treble"].count = 4

\* band a's mean is strictly above band b's (false when either is empty:
\* the mean is then NaN)
MeanAbove(a, b) ==
    /\ a.count > 0
    /\ b.count > 0
    /\ a.sum * b.count > b.sum * a.count

BassAboveAll(bands) ==
    \A b \in BandNames \ {"bass"} : MeanAbove(bands["bass"], bands[b])

\* the lowest index among the bins that hold the maximum (0 for no bins)
LowestMaxBin(fd) ==
    IF fd = <<>> THEN 0
    ELSE (CHOOSE i \in DOMAIN fd :
             /\ \A j \in DOMAIN fd : fd[j] <= fd[i]
             /\ \A j \in 1..(i - 1) : fd[j] < fd[i]) - 1

\* C19 as stated: for a buffer with bins 0..10 at 255 and all others at
\* 200, of whatever length, bass is strictly above each other band and the
\* dominant bin is bin 0; for every buffer the dominant bin is the lowest
\* index among the maximal bins.
C19_BassHeavyAnyLength ==
    outcome.op = "measure" =>
        /\ currentAnalysis.dominantFrequency = LowestMaxBin(frequencyData)
        /\ (Len(frequencyData) >= 11 /\ frequencyData = BassHeavy(Len(frequencyData))) =>
              (/\ BassAboveAll(currentAnalysis.bands)
               /\ currentAnalysis.dominantFrequency = 0)

\* C19 amended: the same for buffers of at least 48 bins (the lowMid range
\* then reaches past bin 10), which includes the 1024- and 2048-bin buffers.
C19_BassHeavyFrom48Bins ==
    outcome.op = "measure" =>
        /\ currentAnalysis.dominantFrequency = LowestMaxBin(frequencyData)
        /\ (Len(frequencyData) >= 48 /\ frequencyData = BassHeavy(Len(frequencyData))) =>
              (/\ BassAboveAll(currentAnalysis.bands)
               /\ currentAnalysis.dominantFrequency = 0)

C19_Witness ==
    /\ outcome.op = "measure"
    /\ frequencyData = BassHeavy(fftSize)
    /\ currentAnalysis.bands["bass"].count = 204
    /\ currentAnalysis.dominantFrequency = 0

\* -------------------------------------------------- the particle canvas
Moods == DOMAIN palettes \cup {"unknown", "undefined", "constructor", "__proto__"}
Energies == {[n |-> k, d |-> EnergySteps] : k \in 0..EnergySteps} \cup {defaultEnergy}

\* The buffers a frame finds: silence, or every bin at the top level.
FrameBuffers == {ZeroArray, [i \in 1..NumBins |-> MaxLevel]}

\* The Raster Visualizer with an initialized extractor, in any of its modes,
\* with any draw of particle lives, and either as constructed or at the end
\* of the colour cycle of the last colour of its palette.
InitCanvas ==
    /\ CameraInit
    /\ HostInit
    /\ InitializedAnalyzer
    /\ now = Epoch
    /\ ai = NewAIIntegration(FALSE)
    /\ app = NewApp
    /\ lastBeatTime = 0
    /\ energyHistory = <<>>
    /\ solo = [history |-> <<>>, lastBeatTime |-> 0, beat |-> FALSE]
    /\ cycles = 0
    /\ beatLog = <<>>
    /\ \E seed \in 0..MaxLife, m \in 0..(Len(modes) - 1),
          c \in {<<0, 0>>, <<colorSteps - 1, 3>>} :
          v2d = [Constructed2D(seed) EXCEPT !.audioAnalyzer = TRUE, !.currentMode = m,
                                            !.colorTransition = c[1],
                                            !.currentColorIndex = c[2]]

NextCanvas ==
    \/ Start2D
    \/ Stop2D
    \/ \E cb \in rafQueue, fd \in FrameBuffers, roll \in BOOLEAN :
          Frame2D(cb, fd, SilentWave, roll)
    \/ \E w \in 1..MaxWidth : Resize2D(w)
    \/ \E mood \in {"calm", "constructor"} : UpdateColorPalette2D(mood, defaultEnergy)
    \/ \E mood \in {"calm", "constructor"} : UpdateColorPalette3D(mood, defaultEnergy)

SpecCanvas == InitCanvas /\ [][NextCanvas]_vars

\* C12: the particle array of the Raster Visualizer always holds exactly
\* maxParticles particles, each with a life between 0 and its maxLife,
\* whatever frames, modes, resizes, palette updates and start/stop calls
\* have happened.
C12_ParticlePoolFixed ==
    /\ Len(v2d.particles) = maxParticles
    /\ \A i \in 1..Len(v2d.particles) : v2d.particles[i] \in 0..MaxLife

\* C12 witness: a frame in particles mode has respawned expired particles,
\* after a resize and a palette update.
C12_Witness ==
    /\ outcome.op = "frame2d"
    /\ outcome.cause = "respawned"
    /\ v2d.width = MaxWidth
    /\ v2d.colorPalette # generateMoodPalette("neutral", defaultEnergy).palette
    /\ Len(v2d.particles) = maxParticles

C26_BeatEnvelope2D ==
    [][(outcome'.op = "frame2d" /\ outcome'.result = "rendered") =>
          v2d'.beatDecays = IF currentAnalysis'.beat
                            THEN 0
                            ELSE DecayBeat(v2d.beatDecays)]_vars

\* C27: the current mode of the Raster Visualizer is always one of the five
\* modes; it changes only during a frame whose analysis has beat = true,
\* and then to its cyclic successor (bars, circles, waves, particles,
\* spiral, bars); start, stop, resize and palette updates leave it alone.
C27_ModeCycle ==
    /\ [](v2d.currentMode \in 0..4)
    /\ [][v2d'.currentMode # v2d.currentMode =>
             /\ outcome'.op = "frame2d"
             /\ outcome'.result = "rendered"
             /\ currentAnalysis'.beat
             /\ modes[v2d'.currentMode + 1] =
                   CASE modes[v2d.currentMode + 1] = "bars" -> "circles"
                     [] modes[v2d.currentMode + 1] = "circles" -> "waves"
                     [] modes[v2d.currentMode + 1] = "waves" -> "particles"
                     [] modes[v2d.currentMode + 1] = "particles" -> "spiral"
                     [] modes[v2d.currentMode + 1] = "spiral" -> "bars"]_vars

\* C27 witness: a beat frame has just switched the mode from spiral round
\* to bars, after a resize.
C27_Witness ==
    /\ outcome.op = "frame2d"
    /\ currentAnalysis.beat
    /\ v2d.modeTransition = transitionSteps - 1
    /\ modes[v2d.currentMode + 1] = "bars"
    /\ v2d.width = MaxWidth

\* the palettes generateMoodPalette returns
GeneratedPalettes ==
    {generateMoodPalette(m, e).palette : m \in DOMAIN palettes, e \in Energies}

\* C31: no operation writes into a palette: updateColorPalette gives each
\* visualizer a newly generated array, so at every state the palette of
\* each visualizer is one whole 4-colour palette (the old or the new one,
\* never a mixture), it changes in updateColorPalette only, and the Raster
\* Visualizer's current colour index is an index into it.
C31_PaletteWhole ==
    /\ [](/\ v2d.colorPalette \in GeneratedPalettes
          /\ v3d.colorPalette \in GeneratedPalettes
          /\ Len(v2d.colorPalette) = 4
          /\ Len(v3d.colorPalette) = 4
          /\ v2d.currentColorIndex \in 0..(Len(v2d.colorPalette) - 1))
    /\ [][/\ v2d'.colorPalette # v2d.colorPalette => outcome'.op = "updateColorPalette2d"
          /\ v3d'.colorPalette # v3d.colorPalette => outcome'.op = "updateColorPalette3d"
         ]_vars

\* C31 witness: after both visualizers were given another palette, a frame
\* has ended a colour cycle on the last colour and wrapped the index to 0.
C31_Witness ==
    /\ outcome.op = "frame2d"
    /\ outcome.result = "rendered"
    /\ v2d.colorTransition = 0
    /\ v2d.currentColorIndex = 0
    /\ v2d.colorPalette # generateMoodPalette("neutral", defaultEnergy).palette
    /\ v3d.colorPalette # generateMoodPalette("neutral", defaultEnergy).palette

\* ------------------------------------------------ the scene and its variants
\* The Scene Visualizer with an initialized extractor, showing any of its
\* variants.
InitScene ==
    /\ CameraInit
    /\ InitializedAnalyzer
    /\ now = Epoch
    /\ ai = NewAIIntegration(FALSE)
    /\ app = NewApp
    /\ lastBeatTime = 0
    /\ energyHistory = <<>>
    /\ solo = [history |-> <<>>, lastBeatTime |-> 0, beat |-> FALSE]
    /\ cycles = 0
    /\ beatLog = <<>>
    /\ v2d = Constructed2D(0)
    /\ loops2D = <<>>
    /\ rafQueue = {}
    /\ rafCount = 0
    /\ strayBody = FALSE
    /\ paletteLog = {}
    /\ \E i \in DOMAIN geometries :
          /\ v3d = [Constructed3D EXCEPT !.audioAnalyzer = TRUE,
                                         !.geometryType = geometries[i]]
          /\ SceneWith(geometries[i], i)

SceneSteps == {250}

NextScene ==
    \/ \E fd \in FrameBuffers, roll \in BOOLEAN :
          Start3D(fd, SilentWave, roll, EarlyPitch)
    \/ Stop3D
    \/ \E cb \in rafQueue, fd \in FrameBuffers, roll \in BOOLEAN :
          Frame3D(cb, fd, SilentWave, roll, EarlyPitch)
    \/ \E mood \in {"calm", "constructor"} : UpdateColorPalette3D(mood, defaultEnergy)
    \/ Dispose3D
    \/ \E d \in SceneSteps : Tick(d, MaxSceneTime)

SpecScene == InitScene /\ [][NextScene]_vars

ObjectsInCollection == SeqSum([i \in DOMAIN visualObjects |-> visualObjects[i].count])

\* The collection holds ObjectCount(variant) objects, all of them built for
\* the current variant, and the scene holds the same objects.
CollectionMatchesVariant ==
    /\ ObjectsInCollection = ObjectCount(v3d.geometryType)
    /\ \A i \in DOMAIN visualObjects : visualObjects[i].variant = v3d.geometryType
    /\ sceneObjects = SeqRange(visualObjects)

\* C13 (as stated): between frames the object collection always holds 64
\* objects for bars, 100 for sphere, 640 for tunnel and 1024 for wave, and it
\* and the scene hold only objects built for the current variant.
C13_CollectionAlwaysMatches == CollectionMatchesVariant

\* C13 (amended): until dispose() is called, between frames the object
\* collection holds 64 objects for bars, 100 for sphere, 640 for tunnel and
\* 1024 for wave, and it and the scene hold only objects built for the
\* current variant, after any sequence of variant switches.
C13_CollectionMatchesUntilDispose ==
    ~v3d.disposed => CollectionMatchesVariant

\* C13 witness: the variant has been switched from wave on to bars, and the
\* collection holds the 64 bars only.
C13_Witness ==
    /\ ~v3d.disposed
    /\ v3d.geometryType = "bars"
    /\ geomCount = Len(geometries) + 1
    /\ ObjectsInCollection = barCount

C39_ObjectsKeepSlot ==
    (/\ outcome.op = "updateColorPalette3d"
     /\ ~outcome.threw
     /\ CollectionMatchesVariant)
    => \A i \in 0..(ObjectCount(v3d.geometryType) - 1) :
          MaterialSlot(v3d, i) =
              LayoutSlot(v3d.geometryType, i, Len(v3d.materialPalette))

\* ------------------------------------------------- the application object
\* new Visualizer2D(canvas): with no 2D context getContext returns null and
\* resize(), called from the constructor, raises a TypeError on
\* this.ctx.scale before any particle is made.
NewVisualizer2D(ctxOk) ==
    IF ctxOk
    THEN [threw |-> FALSE, v |-> Constructed2D(0)]
    ELSE [threw |-> TRUE,
          v |-> [Constructed2D(0) EXCEPT !.ctx = FALSE, !.particles = <<>>,
                                         !.resizeListener = FALSE]]

\* new Visualizer3D(container): initialize() builds the scene and the camera,
\* then new THREE.WebGLRenderer raises when no GPU context can be acquired;
\* the canvas is not appended and no geometry is created.
NewVisualizer3D(webglOk) ==
    IF webglOk
    THEN [threw |-> FALSE, v |-> Constructed3D]
    ELSE [threw |-> TRUE,
          v |-> [Constructed3D EXCEPT !.renderer = FALSE, !.canvasAttached = FALSE,
                                      !.resizeListener = FALSE]]

\* The Scene Visualizer whose constructor was never reached.
NoVisualizer3D ==
    [Constructed3D EXCEPT !.scene = FALSE, !.camera = FALSE, !.renderer = FALSE,
                          !.canvasAttached = FALSE, !.resizeListener = FALSE]

\* new MusicVizApp(): the extractor, the Raster Visualizer and the Scene
\* Visualizer are constructed in this order, then initialize() hands the
\* extractor to both visualizers.  An error raised by a constructor leaves
\* the application constructor at that statement: what follows (the later
\* components, the event listeners, the two setAudioAnalyzer calls) does
\* not run and no application object is returned.
MusicVizApp(ctxOk, webglOk) ==
    LET r2 == NewVisualizer2D(ctxOk)
        r3 == IF r2.threw
              THEN [threw |-> FALSE, v |-> NoVisualizer3D]
              ELSE NewVisualizer3D(webglOk)
        threw == r2.threw \/ r3.threw
    IN  [threw |-> threw,
         audioAnalyzer |-> TRUE,
         visualizer2D |-> [r2.v EXCEPT !.audioAnalyzer = ~threw],
         visualizer3D |-> [r3.v EXCEPT !.audioAnalyzer = ~threw]]

\* The state `new MusicVizApp()` leaves, for each availability of the two
\* rendering back-ends.
InitApp ==
    /\ CameraInit
    /\ AnalyzerInit
    /\ PlatformInit
    /\ boundBy = [e \in Elements |-> "none"]
    /\ now = Epoch
    /\ ai = NewAIIntegration(FALSE)
    /\ app = NewApp
    /\ initCount = 0
    /\ cycles = 0
    /\ justDisposed = FALSE
    /\ beatLog = <<>>
    /\ everInitialized = FALSE
    /\ solo = [history |-> <<>>, lastBeatTime |-> 0, beat |-> FALSE]
    /\ rafQueue = {}
    /\ rafCount = 0
    /\ strayBody = FALSE
    /\ paletteLog = {}
    /\ loops2D = <<>>
    /\ \E ctxOk, webglOk \in BOOLEAN :
          LET built == MusicVizApp(ctxOk, webglOk)
          IN  /\ v2d = built.visualizer2D
              /\ v3d = built.visualizer3D
              /\ outcome = Observed("new MusicVizApp", built.threw, "none",
                                    IF built.threw THEN "backend" ELSE "none",
                                    0, FALSE, "page")
              /\ IF built.visualizer3D.renderer
                 THEN SceneWith("bars", 1)
                 ELSE /\ visualObjects = <<>>
                      /\ sceneObjects = {}
                      /\ gpuLive = {}
                      /\ geomCount = 0

\* The application object exists: its constructor returned.
AppConstructed == v2d.ctx /\ v3d.renderer

\* What the application object does with its components: loadAudio
\* initializes the extractor on the audio element, startVisualizers and
\* pauseVisualizers start and stop the visualizers, the host runs frames.
NextApp ==
    \/ AppConstructed /\ Initialize(1, TRUE, FALSE)
    \/ AppConstructed /\ Start2D
    \/ AppConstructed /\ Stop2D
    \/ \E cb \in rafQueue, fd \in FrameBuffers, roll \in BOOLEAN :
          Frame2D(cb, fd, SilentWave, roll)
    \/ AppConstructed /\ \E fd \in FrameBuffers, roll \in BOOLEAN :
          Start3D(fd, SilentWave, roll, EarlyPitch)
    \/ AppConstructed /\ Stop3D
    \/ \E cb \in rafQueue, fd \in FrameBuffers, roll \in BOOLEAN :
          Frame3D(cb, fd, SilentWave, roll, EarlyPitch)

SpecApp == InitApp /\ [][NextApp]_vars

\* C23: a rendering back-end failure while one visualizer is set up disables
\* that visualizer only: the other visualizer and the extractor are
\* constructed and wired together, ready to start and run frames.
C23_BackendFailureIsLocal ==
    /\ ~v3d.renderer => (v2d.ctx /\ v2d.audioAnalyzer)
    /\ ~v2d.ctx => (v3d.renderer /\ v3d.audioAnalyzer)

\* ------------------------------------------ the application while it plays
\* The application as its constructor and initialize() leave it with both
\* back-ends available: nothing loaded, nothing playing, raster mode, the
\* extractor handed to both visualizers.
InitPlayer ==
    /\ CameraInit
    /\ AnalyzerInit
    /\ PlatformInit
    /\ GhostInit
    /\ boundBy = [e \in Elements |-> "none"]
    /\ now = Epoch
    /\ ai = NewAIIntegration(FALSE)
    /\ app = NewApp
    /\ rafQueue = {}
    /\ rafCount = 0
    /\ strayBody = FALSE
    /\ paletteLog = {}
    /\ loops2D = <<>>
    /\ v2d = MusicVizApp(TRUE, TRUE).visualizer2D
    /\ v3d = MusicVizApp(TRUE, TRUE).visualizer3D
    /\ SceneWith("bars", 1)

\* the track the user loads
PlayerTrack ==
    [isNull |-> FALSE, title |-> "Nocturne", key |-> "nocturne_unknown artist",
     genre |-> "classical", words |-> {}]

\* The user loads a track (the audio platform may refuse a context), the
\* audio element starts and stops playing, the user toggles the mode and
\* enters and leaves the visualizer, by button or by key; the host runs
\* frames and the hide timers of the container.  The runs end before a
\* toast timer fires or the mood analysis of the track settles.
NextPlayer ==
    \/ \E ctxOk \in BOOLEAN : LoadAudio(PlayerTrack, ctxOk)
    \/ HandleAudioPlay
    \/ HandleAudioPause
    \/ ToggleVisualizerMode
    \/ EnterVisualizer
    \/ ExitVisualizer
    \/ \E code \in {"Space", "KeyV", "Escape"} : HandleKeyboard(code)
    \/ HandleFullscreenChange
    \/ ContainerHideTimer
    \/ \E cb \in rafQueue, f \in FrameInputs : Frame2D(cb, f.fd, SilentWave, f.roll)
    \/ \E cb \in rafQueue, f \in FrameInputs :
          Frame3D(cb, f.fd, SilentWave, f.roll, EarlyPitch)

SpecPlayer == InitPlayer /\ [][NextPlayer]_vars

\* C32: under the application's operations (play, pause, ended, error, mode
\* toggle, entering and leaving the visualizer, fullscreen change, keyboard
\* shortcuts) in any order, at most one of the two visualizers is running
\* at any time.
C32_AtMostOneRunning == ~(v2d.isRunning /\ v3d.isRunning)

\* C34: loadAudio completes successfully (audio controls shown, mood
\* analysis started) only if initialize() reported success; when it
\* reports failure loadAudio fails, and no visualizer frame later runs
\* against an extractor that is not initialized.
C34_LoadNeedsInitialize ==
    /\ (outcome.op = "initialize" /\ outcome.result = "false")
          => (app.lastLoad = "rejected" /\ ~app.controlsShown /\ app.analyses = <<>>)
    /\ outcome.cause # "null-buffer"

\* C37: a visualizer is running only while the application is playing:
\* after pause, ended, error or exitVisualizer both are stopped, and none is
\* started while isPlaying is false.
C37_RunningOnlyWhilePlaying ==
    /\ (v2d.isRunning \/ v3d.isRunning) => app.isPlaying
    /\ (/\ outcome.op = "pauseVisualizers"
        /\ app.op \in {"pause", "exitVisualizer"})
          => (~v2d.isRunning /\ ~v3d.isRunning /\ rafQueue = {})

\* C37 witness: the audio element reported a pause while the Scene
\* Visualizer was running after a mode toggle; both visualizers are stopped.
C37_Witness ==
    /\ app.op = "pause"
    /\ outcome.op = "pauseVisualizers"
    /\ outcome.result = "stopped"
    /\ app.is3DMode
    /\ v3d.frames >= 1
    /\ v2d.stopped
    /\ ~app.isPlaying
    /\ ~v2d.isRunning
    /\ ~v3d.isRunning

\* ------------------------------------------ tracks loaded one after another
\* the tracks the user loads: one whose genre reads calm, one uplifting
LoadedTracks ==
    {PlayerTrack,
     [isNull |-> FALSE, title |-> "Holiday", key |-> "holiday_unknown artist",
      genre |-> "pop", words |-> {}]}

\* what the remote service answers to a mood request
TrackAnswers ==
    {NoAnswer, [kind |-> "text", mood |-> "energetic", energy |-> <<"1">>]}

\* The application with or without a key for the remote service.
InitTracks ==
    /\ CameraInit
    /\ AnalyzerInit
    /\ PlatformInit
    /\ GhostInit
    /\ boundBy = [e \in Elements |-> "none"]
    /\ now = Epoch
    /\ \E apiKey \in BOOLEAN : ai = NewAIIntegration(apiKey)
    /\ app = NewApp
    /\ rafQueue = {}
    /\ rafCount = 0
    /\ strayBody = FALSE
    /\ paletteLog = {}
    /\ loops2D = <<>>
    /\ v2d = MusicVizApp(TRUE, TRUE).visualizer2D
    /\ v3d = MusicVizApp(TRUE, TRUE).visualizer3D
    /\ SceneWith("bars", 1)

\* The user loads tracks; the mood analyses settle (the remote ones in any
\* order) and the toast timers run.
NextTracks ==
    \/ \E metadata \in LoadedTracks : LoadAudio(metadata, TRUE)
    \/ \E i \in DOMAIN app.analyses, response \in TrackAnswers :
          PerformAIAnalysis(i, response)
    \/ ToastTimer
    \/ ToastHideTimer

SpecTracks == InitTracks /\ [][NextTracks]_vars

\* C36: once every mood analysis has completed, the palette installed in
\* both visualizers is the one the analysis of the most recently loaded
\* track produced, whatever the order in which the analyses completed.
C36_LatestTrackPalette ==
    (app.analyses = <<>>) =>
        \A i \in DOMAIN app.applied :
            app.applied[i].track = app.currentTrack =>
                /\ v2d.colorPalette = app.applied[i].palette
                /\ v3d.colorPalette = app.applied[i].palette

\* ------------------------------------------------- showing and hiding
\* the elements DOMUtils is called on: the visualizer container and the toast
PageElements == {"container", "toast"}

\* DOMUtils.show(element) called by the application
DomShow(name) ==
    /\ app' = [app EXCEPT !.op = "show", ![name] = show(@)]
    /\ outcome' = Observed("show", FALSE, "none", "none", 0, FALSE, "app")
    /\ UNCHANGED <<loopVars, cameraVars, extractorState, now, ai>>

\* DOMUtils.hide(element) called by the application
DomHide(name) ==
    /\ app[name].hideTimers < MaxTimers
    /\ app' = [app EXCEPT !.op = "hide", ![name] = hide(@)]
    /\ outcome' = Observed("hide", FALSE, "none", "none", 0, FALSE, "app")
    /\ UNCHANGED <<loopVars, cameraVars, extractorState, now, ai>>

\* DOMUtils.showToast(message, type, duration) called by the application
DomShowToast ==
    /\ app.toast.toastTimers < MaxTimers
    /\ app' = [app EXCEPT !.op = "showToast", !.toast = showToast(@)]
    /\ outcome' = Observed("showToast", FALSE, "none", "none", 0, FALSE, "app")
    /\ UNCHANGED <<loopVars, cameraVars, extractorState, now, ai>>

InitDom ==
    /\ CameraInit
    /\ LoopInit
    /\ AnalyzerInit
    /\ PlatformInit
    /\ GhostInit
    /\ boundBy = [e \in Elements |-> "none"]
    /\ now = Epoch
    /\ ai = NewAIIntegration(FALSE)
    /\ app = NewApp

\* The application shows and hides the two elements and shows toasts in
\* any order; the host runs the timers these calls set.
NextDom ==
    \/ \E name \in PageElements : DomShow(name)
    \/ \E name \in PageElements : DomHide(name)
    \/ DomShowToast
    \/ ContainerHideTimer
    \/ ToastTimer
    \/ ToastHideTimer

SpecDom == InitDom /\ [][NextDom]_vars

\* C38: once every pending timer of an element has fired, the element is
\* visible exactly when the most recent of the show and hide calls on it
\* was show: a hide timer set earlier never hides an element shown after it.
C38_LastCallWins ==
    \A name \in PageElements :
        (/\ app[name].hideTimers = 0
         /\ app[name].toastTimers = 0
         /\ app[name].lastCall # "none")
            => (app[name].hidden <=> app[name].lastCall = "hide")

\* -------------------------------------------------- streaming-service URLs
\* The URLs typed into the field: the empty one and, with or without an id
\* the extractor of the detected service finds, a URL no pattern matches,
\* one for each service, and one that two patterns match.
UrlMatches ==
    {{}, {"soundcloud"}, {"youtube"}, {"spotify"}, {"appleMusic"},
     {"youtube", "spotify"}}

Urls ==
    {NoUrl} \cup
    {[empty |-> FALSE, matches |-> m, idOk |-> ok] : m \in UrlMatches, ok \in BOOLEAN}

\* what the oEmbed request does: answers, answers with a status that is not
\* ok, is rejected, or answers with a body that is no JSON
Fetches == {"ok", "notok", "reject", "badjson"}

InitStreams ==
    /\ CameraInit
    /\ LoopInit
    /\ AnalyzerInit
    /\ PlatformInit
    /\ GhostInit
    /\ boundBy = [e \in Elements |-> "none"]
    /\ now = Epoch
    /\ ai = NewAIIntegration(FALSE)
    /\ app = NewApp

\* URLs are handled and loaded in any order; the host runs the toast timers.
NextStreams ==
    \/ \E url \in Urls, fetched \in Fetches : HandleUrl(url, fetched)
    \/ \E url \in Urls, fetched \in Fetches : HandleUrlLoad(url, fetched, TRUE)
    \/ ToastTimer
    \/ ToastHideTimer

SpecStreams == InitStreams /\ [][NextStreams]_vars

\* handleUrl was called on the URL of app.urlLoad
UrlHandled == app.urlLoad.fetched # "none"

\* no service pattern matches the URL
UnsupportedUrl == ~isSupportedUrl(app.urlLoad.url)

\* a service is detected whose id extractor finds no id in the URL
InvalidUrl ==
    /\ detectService(app.urlLoad.url) \in 1..3
    /\ ~app.urlLoad.url.idOk

\* the oEmbed request of a SoundCloud or YouTube URL did not answer with
\* track information
RequestFailed ==
    /\ detectService(app.urlLoad.url) \in 1..2
    /\ app.urlLoad.fetched # "ok"

\* C40 as stated: handleUrl never rejects; it resolves to null for an
\* unsupported or invalid URL and otherwise to a record whose streamUrl is
\* null; handleUrlLoad never calls loadAudio for a URL of a streaming
\* service and leaves the loaded track as it was.
C40_NullOnlyForBadUrl ==
    /\ UrlHandled =>
          /\ ~app.urlLoad.handled.rejected
          /\ app.urlLoad.handled.isNull <=> (UnsupportedUrl \/ InvalidUrl)
          /\ ~app.urlLoad.handled.isNull => app.urlLoad.handled.streamUrl = ""
    /\ (app.op = "handleUrlLoad" /\ ~UnsupportedUrl) =>
          /\ app.urlLoad.loadAudioCalls = 0
          /\ app.currentTrack = app.urlLoad.trackBefore

\* C40 amended: handleUrl never rejects; it resolves to null for an
\* unsupported or invalid URL and for a SoundCloud or YouTube URL whose
\* oEmbed request fails, and otherwise to a record whose streamUrl is null;
\* handleUrlLoad never calls loadAudio for a URL of a streaming service and
\* leaves the loaded track as it was.
C40_NullOrPlaceholder ==
    /\ UrlHandled =>
          /\ ~app.urlLoad.handled.rejected
          /\ app.urlLoad.handled.isNull
                <=> (UnsupportedUrl \/ InvalidUrl \/ RequestFailed)
          /\ ~app.urlLoad.handled.isNull => app.urlLoad.handled.streamUrl = ""
    /\ (app.op = "handleUrlLoad" /\ ~UnsupportedUrl) =>
          /\ app.urlLoad.loadAudioCalls = 0
          /\ app.currentTrack = app.urlLoad.trackBefore

\* C40 witness: with a track loaded from a direct URL, handleUrlLoad was
\* given a Spotify URL with an id: handleUrl resolved to a record without a
\* stream URL, loadAudio was not called and the track is the one loaded
\* before.
C40_Witness ==
    /\ app.op = "handleUrlLoad"
    /\ app.urlLoad.url.matches = {"spotify"}
    /\ app.urlLoad.url.idOk
    /\ ~app.urlLoad.handled.isNull
    /\ app.urlLoad.handled.service = "spotify"
    /\ app.urlLoad.handled.streamUrl = ""
    /\ app.urlLoad.loadAudioCalls = 0
    /\ app.currentTrack = 1
    /\ app.urlLoad.trackBefore = 1

\* ------------------------------------------------------- track analysis
\* Tracks handed to analyzeTrack: no metadata object, a track with no
\* keyword, and tracks whose genre and keywords drive the keyword analysis.
Tracks ==
    {NullMetadata,
     [isNull |-> FALSE, key |-> "untitled_", genre |-> "", words |-> {}],
     [isNull |-> FALSE, key |-> "party rock_band", genre |-> "rock",
      words |-> {"party", "rock"}],
     [isNull |-> FALSE, key |-> "sad song_", genre |-> "ambient",
      words |-> {"sad", "ambient"}],
     [isNull |-> FALSE, key |-> "slow love_", genre |-> "polka",
      words |-> {"slow", "love"}]}

EnergyChars == {"1", "5", "."}
EnergyTexts ==
    UNION {[1..k -> EnergyChars] : k \in 1..MaxEnergyText}

\* What the remote service does with a request: the fetch is rejected, the
\* status is not ok, the body has no candidates, or the body carries a text
\* with or without a mood word and an energy figure.
Responses ==
    {[kind |-> k, mood |-> "", energy |-> <<>>] : k \in {"reject", "status", "nocandidates"}}
    \cup {[kind |-> "text", mood |-> m, energy |-> e] :
             m \in {"", "calm", "angry", "constructor"},
             e \in EnergyTexts \cup {<<>>}}

InitMood ==
    /\ CameraInit
    /\ LoopInit
    /\ AnalyzerInit
    /\ PlatformInit
    /\ GhostInit
    /\ boundBy = [e \in Elements |-> "none"]
    /\ now = Epoch
    /\ \E apiKey \in BOOLEAN : ai = NewAIIntegration(apiKey)
    /\ app = NewApp

NextMood ==
    \/ \E metadata \in Tracks, response \in Responses : AnalyzeTrack(metadata, response)
    \/ ClearCache

SpecMood == InitMood /\ [][NextMood]_vars

\* C22: analyzeTrack always resolves and never rejects, with a mood among
\* the five mood names and an energy that is a number in [0,1], on every
\* path: cache hit, remote success, remote failure or malformed answer,
\* keyword fallback, and the default.
C22_TrackAnalysisValid ==
    ai.resolved.settled =>
        /\ ~ai.resolved.rejected
        /\ ai.resolved.mood \in validMoods
        /\ ~ai.resolved.energy.nan
        /\ 0 <= ai.resolved.energy.n
        /\ ai.resolved.energy.n <= ai.resolved.energy.d

\* ------------------------------------------------- camera gestures and timers
InitCamera ==
    /\ CameraInit
    /\ LoopInit
    /\ AnalyzerInit
    /\ PlatformInit
    /\ GhostInit
    /\ boundBy = [e \in Elements |-> "none"]
    /\ now = Epoch
    /\ ai = NewAIIntegration(FALSE)
    /\ app = NewApp

NextCamera ==
    \/ \E x, y \in Coords : MouseDown(x, y)
    \/ \E x, y \in Coords : MouseMove(x, y)
    \/ MouseUp
    \/ \E n \in 1..2, x, y \in Coords : TouchStart(n, x, y)
    \/ \E n \in 1..2, x, y \in Coords : TouchMove(n, x, y)
    \/ TouchEnd
    \/ TimerFire
    \/ \E e \in 0..1, pitch \in PitchSamples :
          targetRotation.yEnergy < MaxRot /\ UpdateCamera(e, pitch)
    \/ Tick(1000, MaxCamTime)

SpecCamera == InitCamera /\ [][NextCamera]_vars

\* C3: while a drag gesture is in progress (isMouseDown, from mousedown or
\* single-touch touchstart to the matching mouseup or touchend), autoRotate
\* is false.
C3_NoAutoRotateWhileDragging == isMouseDown => ~autoRotate

\* C4: auto-rotate never resumes earlier than 5 seconds after the end of the
\* most recent gesture: whenever a timer turned autoRotate back on outside a
\* drag, at least resumeDelay ms had passed since the last gesture ended.
C4_ResumeFiveSecondsAfterGesture ==
    (resumeLog.at > 0 /\ ~resumeLog.during) => resumeLog.sinceEnd >= resumeDelay

\* C8: after dispose(), an immediately following initialize() with an audio
\* source succeeds and yields an analyser fed by that source (the platform
\* being able to create and resume a context, and the element not being
\* held by a pipeline of another owner).
C8_ReinitializeAfterDispose ==
    (/\ outcome.op = "initialize"
     /\ outcome.afterDispose
     /\ outcome.result # "pending"
     /\ outcome.cause \notin {"context", "resume", "state"}
     /\ boundBy[outcome.el] # "other")
    => (/\ outcome.result = "true"
        /\ source.el = outcome.el
        /\ Fed(analyser, source, edges))

\* C9: initialize never throws; it makes one attempt (one context request
\* per call); it returns false exactly when a step of it failed and true
\* otherwise, and on true the analyser and its buffers exist.
C9_InitializeReportsFailure ==
    /\ ctxRequests = initCount
    /\ outcome.op = "initialize" =>
          /\ ~outcome.threw
          /\ outcome.result \in {"true", "false", "pending"}
          /\ (outcome.result = "false") <=> (outcome.cause # "none")
          /\ outcome.result = "true" =>
                (analyser # 0 /\ audioContext # 0 /\ frequencyData = ZeroArray)

C9_Witness ==
    /\ outcome.op = "initialize"
    /\ outcome.result = "false"
    /\ outcome.cause = "attach"
    /\ everInitialized

\* C10: once initialize() has returned success, every later analyze() and
\* getVisualizationData(n) returns without raising an error, after any
\* sequence of further extractor operations.
C10_ExtractionNeverFails ==
    (everInitialized /\ outcome.op \in {"analyze", "getVisualizationData"})
    => ~outcome.threw

\* C25: after any successful initialize() (a second call for another track
\* on the same element included), the analyser that analyze() reads is the
\* one wired source -> analyser -> destination, so that the analysis
\* reflects the playing audio.
C25_AnalyserInPipeline ==
    (\/ outcome.op = "initialize" /\ outcome.result = "true"
     \/ outcome.op = "analyze" /\ outcome.result = "fresh")
    => (/\ source # NoSource
        /\ <<source.node, analyser>> \in edges
        /\ <<analyser, Dest>> \in edges)

\* The series returned by the getVisualizationData call just observed.
ReturnedSeries == getVisualizationData(lastFrequencyData, outcome.el)

\* C30: for every requested length >= 1, getVisualizationData(length)
\* returns exactly length values, each a number in [0,1], each the
\* power-curved mean of one of length contiguous, non-overlapping groups of
\* smoothed spectrum bins.
C30_SeriesWellFormed ==
    (outcome.op = "getVisualizationData" /\ ~outcome.threw) =>
        /\ Len(ReturnedSeries) = outcome.el
        /\ \A i \in DOMAIN ReturnedSeries :
              /\ ~ReturnedSeries[i].nan
              /\ 0 <= ReturnedSeries[i].n
              /\ ReturnedSeries[i].n <= ReturnedSeries[i].d
              /\ ReturnedSeries[i].start < ReturnedSeries[i].end
              /\ ReturnedSeries[i].end <= Len(lastFrequencyData.num)
              /\ i > 1 => ReturnedSeries[i].start = ReturnedSeries[i - 1].end

\* ------------------------------------------------- visualizer life cycles
Init ==
    /\ CameraInit
    /\ LoopInit
    /\ AnalyzerInit
    /\ PlatformInit
    /\ GhostInit
    /\ boundBy = [e \in Elements |-> "none"]
    /\ now = Epoch
    /\ ai = NewAIIntegration(FALSE)
    /\ app = NewApp

\* The application holds one audio element (element 1) and hands it to every
\* initialize() call.  A frame meets the extractor before initialize() (null
\* buffers) and after it; the extractor's own dispose() is part of SpecAudio.
Next ==
    \/ Start2D
    \/ Stop2D
    \/ \E cb \in rafQueue, fd \in FrameBuffers, roll \in BOOLEAN :
          Frame2D(cb, fd, SilentWave, roll)
    \/ Dispose2D
    \/ SetAudioAnalyzer2D
    \/ \E fd \in FrameBuffers, roll \in BOOLEAN :
          Start3D(fd, SilentWave, roll, EarlyPitch)
    \/ Stop3D
    \/ \E cb \in rafQueue, fd \in FrameBuffers, roll \in BOOLEAN :
          Frame3D(cb, fd, SilentWave, roll, EarlyPitch)
    \/ Dispose3D
    \/ SetAudioAnalyzer3D
    \/ Initialize(1, TRUE, FALSE)

Spec == Init /\ [][Next]_vars

\* C1: after stop() on either visualizer, and until its start() is called
\* again, no frame callback of that visualizer is scheduled with the host,
\* and no render/animate body has run for a stopped visualizer.
C1_NoFrameAfterStop ==
    /\ v3d.stopped => Pending("v3d") = {}
    /\ v2d.stopped => Pending("v2d") = {}
    /\ ~strayBody

C1_Witness ==
    /\ v3d.stopped
    /\ v3d.renders >= 1
    /\ ~v3d.disposed
    /\ v2d.stopped
    /\ v2d.frames >= 1
    /\ rafCount >= 3

\* C6: once dispose() has been called on the Scene Visualizer, start() does
\* not put it back into the running state, no frame callback of it is
\* scheduled and no further frame is rendered.
C6_NoRestartAfterDispose ==
    v3d.disposed =>
        /\ ~v3d.isRunning
        /\ Pending("v3d") = {}
        /\ v3d.renders = v3d.rendersAtDispose

\* The fields of the Scene Visualizer the program itself holds.
Fields3D ==
    <<v3d.isRunning, v3d.animationId, v3d.audioAnalyzer, v3d.frames, v3d.geometryType,
      v3d.beatDecays, v3d.scene, v3d.camera, v3d.renderer, v3d.canvasAttached,
      visualObjects, sceneObjects, gpuLive, rafQueue>>

Fields2D ==
    <<v2d.isRunning, v2d.animationLoop, v2d.audioAnalyzer, v2d.frames, v2d.currentMode,
      v2d.modeTransition, v2d.beatDecays, v2d.colorPalette, v2d.width, v2d.particles,
      loops2D, rafQueue>>

\* C7: every dispose() call on the Scene Visualizer returns without an
\* error, having disposed the geometry and material of every object that was
\* in the collection, emptied the collection and taken the canvas out of
\* the container; a dispose() call that follows a dispose() call leaves the
\* state as it found it.
C7_DisposeReleasesAndRepeats ==
    [][(outcome'.op = "dispose3d" /\ v3d' # v3d) =>
          /\ ~outcome'.threw
          /\ visualObjects' = <<>>
          /\ SeqRange(visualObjects) \cap gpuLive' = {}
          /\ ~v3d'.canvasAttached
          /\ v3d.disposeRun >= 1 => Fields3D' = Fields3D]_vars

\* C14: on either visualizer a stop() call raises no error and leaves the
\* visualizer not running with no frame callback pending, and a stop() call
\* on a visualizer that is not running (a second stop() in a row, or before
\* any start()) changes none of its fields, of its loops or of the host's
\* frame queue.
C14_StopIsIdempotent ==
    [][ /\ Stop3D => /\ ~outcome'.threw
                     /\ ~v3d'.isRunning
                     /\ Pending("v3d")' = {}
                     /\ (~v3d.isRunning => Fields3D' = Fields3D /\ Fields2D' = Fields2D)
        /\ Stop2D => /\ ~outcome'.threw
                     /\ ~v2d'.isRunning
                     /\ Pending("v2d")' = {}
                     /\ (~v2d.isRunning => Fields2D' = Fields2D /\ Fields3D' = Fields3D)
      ]_vars

\* C14 witness: stop() was called on the Scene Visualizer after it had run
\* and been stopped, and the Raster Visualizer has been stopped as well.
C14_Witness ==
    /\ outcome.op = "stop3d"
    /\ outcome.result = "idle"
    /\ v3d.stopped
    /\ v3d.frames >= 1
    /\ v2d.stopped
    /\ ~v2d.isRunning

AtMostOnePending ==
    /\ Cardinality(Pending("v3d")) <= 1
    /\ Cardinality(Pending("v2d")) <= 1

\* C15: each visualizer has at most one frame callback pending with the
\* host at any time, and a start() call on a visualizer that is running
\* changes none of its fields, of its loops or of the host's frame queue.
C15_StartIsIdempotent ==
    /\ []AtMostOnePending
    /\ [][ /\ (v3d.isRunning /\ \E fd \in FrameBuffers, roll \in BOOLEAN :
                                   Start3D(fd, SilentWave, roll, EarlyPitch))
               => (Fields3D' = Fields3D /\ Fields2D' = Fields2D)
           /\ (v2d.isRunning /\ Start2D)
               => (Fields2D' = Fields2D /\ Fields3D' = Fields3D)
         ]_vars

\* C15 witness: start() was called on the running Scene Visualizer while
\* the Raster Visualizer was running too; each has its one callback pending.
C15_Witness ==
    /\ outcome.op = "start3d"
    /\ v3d.isRunning
    /\ v2d.isRunning
    /\ Cardinality(Pending("v3d")) = 1
    /\ Cardinality(Pending("v2d")) = 1

\* C33: whenever a visualizer is running between frames, exactly one frame
\* callback of it is pending with the host: the frame chain never ends
\* (for example because a frame raised an error) while the running flag
\* stays true and start() has become a no-op.
C33_RunningHasPending ==
    /\ v2d.isRunning => Cardinality(Pending("v2d")) = 1
    /\ v3d.isRunning => Cardinality(Pending("v3d")) = 1

\* ------------------------------------------- resize notifications and dispose
InitResize ==
    /\ CameraInit
    /\ LoopInit
    /\ AnalyzerInit
    /\ PlatformInit
    /\ GhostInit
    /\ boundBy = [e \in Elements |-> "none"]
    /\ now = Epoch
    /\ ai = NewAIIntegration(FALSE)
    /\ app = NewApp

\* Both visualizers are started, stopped and disposed while the window is
\* resized.
NextResize ==
    \/ Start2D
    \/ Stop2D
    \/ Dispose2D
    \/ \E fd \in FrameBuffers, roll \in BOOLEAN :
          Start3D(fd, SilentWave, roll, EarlyPitch)
    \/ Stop3D
    \/ Dispose3D
    \/ \E w \in 1..MaxWidth : WindowResize(w)

SpecResize == InitResize /\ [][NextResize]_vars

\* C35: after dispose() of either visualizer a resize notification of the
\* host no longer reaches it: a window resize changes no state of the
\* disposed visualizer and raises no error.
C35_DisposedIgnoresResize ==
    [][ outcome'.op = "resize" =>
          /\ outcome.op = "dispose2d" => v2d' = v2d
          /\ v3d.disposed => (v3d'.width = v3d.width /\ ~outcome'.threw)
      ]_vars

\* ------------------------------------------------------ palette generation
\* The application as constructed; palettes are generated for analysed
\* tracks and handed to the Scene Visualizer.
InitPalette ==
    /\ LoopInit
    /\ CameraInit
    /\ AnalyzerInit
    /\ PlatformInit
    /\ GhostInit
    /\ boundBy = [e \in Elements |-> "none"]
    /\ now = Epoch
    /\ ai = NewAIIntegration(FALSE)
    /\ app = NewApp

NextPalette ==
    \/ \E mood \in Moods, energy \in Energies : GenerateMoodPalette(mood, energy)
    \/ \E mood \in {"calm", "constructor"} : UpdateColorPalette3D(mood, defaultEnergy)

SpecPalette == InitPalette /\ [][NextPalette]_vars

\* C17: for every mood that is not one of the five names of the table
\* (strings that name inherited object properties and undefined included)
\* and every energy, generateMoodPalette returns the palette of 'neutral'
\* for that energy and raises no error.
C17_UnknownMoodIsNeutral ==
    \A c \in paletteLog :
        c.mood \notin DOMAIN palettes =>
            /\ ~c.result.threw
            /\ c.result.palette = generateMoodPalette("neutral", c.energy).palette

IsRgbPalette(pal) ==
    /\ Len(pal) = 4
    /\ \A i \in 1..Len(pal) :
          /\ Len(pal[i]) = 3
          /\ \A k \in 1..3 : pal[i][k] \in 0..255

\* everything of the program a call could write
ProgramState ==
    <<analyzerVars, platformVars, cameraVars, v2d, loops2D, v3d, visualObjects,
      sceneObjects, gpuLive, rafQueue>>

IntendedPalette(mood, energy) ==
    generateMoodPalette(IF mood \in DOMAIN palettes THEN mood ELSE "neutral",
                        energy).palette

\* C20: updateColorPalette(mood, energy) on either visualizer, running or
\* not, leaves the running flag, the pending frame callback, the mode or
\* variant, the particle pool or object collection and the beat intensity
\* unchanged, raises no error, and leaves the visualizer (and the materials
\* of its objects) with the new palette for the next frame.
C20_PaletteUpdateOnly ==
    [][ \A mood \in Moods, energy \in Energies :
          /\ UpdateColorPalette3D(mood, energy) =>
                /\ <<v3d.isRunning, v3d.animationId, v3d.geometryType, v3d.beatDecays,
                     visualObjects, sceneObjects, rafQueue>>' =
                   <<v3d.isRunning, v3d.animationId, v3d.geometryType, v3d.beatDecays,
                     visualObjects, sceneObjects, rafQueue>>
                /\ ~outcome'.threw
                /\ v3d'.colorPalette = IntendedPalette(mood, energy)
                /\ visualObjects # <<>> =>
                      v3d'.materialPalette = IntendedPalette(mood, energy)
          /\ UpdateColorPalette2D(mood, energy) =>
                /\ <<v2d.isRunning, v2d.animationLoop, v2d.currentMode, v2d.beatDecays,
                     v2d.particles, loops2D, rafQueue>>' =
                   <<v2d.isRunning, v2d.animationLoop, v2d.currentMode, v2d.beatDecays,
                     v2d.particles, loops2D, rafQueue>>
                /\ ~outcome'.threw
                /\ v2d'.colorPalette = IntendedPalette(mood, energy)
      ]_vars

====
